---- MODULE Spec2Model ----
(***************************************************************************)
(* Verification model of showroom-tool: repository acquisition and cache   *)
(* state machine (src/src/showroom_tool/showroom.py), cache-key            *)
(* derivation, local-directory mode of fetch_showroom_repository and the   *)
(* iterative per-field mode of process_content_with_structured_output      *)
(* (src/sample-code/shared_utilities.py), navigation parsing, title        *)
(* extraction and module assembly (showroom.py), the fetch/process graph   *)
(* (src/src/showroom_tool/graph_factory.py), the structured-output call    *)
(* and prompt assembly (shared_utilities.py, prompts.py), configuration    *)
(* overrides (prompt_builder.py), concurrent use of one cache entry and    *)
(* the temporary directory of a no-cache fetch (showroom.py).              *)
(***************************************************************************)
EXTENDS Integers, Sequences, FiniteSets, TLC

VARIABLES
    remote,      \* the remote repository: branch name -> commit (0 = no such branch)
    defaultBr,   \* the remote repository's default branch
    advances,    \* number of commits pushed to the remote so far
    cache,       \* the cache root: requested ref (one cache key each) -> directory state
    last,        \* observation of the most recent get_or_clone_repository call
    keyIn,       \* two (git_url, git_ref) argument pairs of generate_cache_key
    keyOut,      \* what generate_cache_key computed for them
    locFs,       \* the local filesystem: parent directory name -> directory state
    locLast,     \* observation of the most recent local-mode fetch_showroom_repository call
    iterIn,      \* the schema handed to the iterative per-field mode
    iterPc,      \* position of the iterative call: "idle", "loop" or "done"
    iterIssued,  \* fields for which a single-field sub-invocation was issued, in order
    iterSubs,    \* submodels: fields whose sub-invocation succeeded, in order
    iterOut,     \* the (result, success, metadata) triple returned
    navIn,       \* the lines of a nav.adoc handed to parse_navigation_file
    navOut,      \* the list of filenames parse_navigation_file returned
    titIn,       \* the lines of a page handed to extract_module_name_from_content
    titOut,      \* the module name it returned
    exIn,        \* a working copy handed to the extraction of fetch_showroom_repository
    exOut,       \* the Showroom (or None) the extraction returned
    gIn,         \* arguments and environment of a process_showroom_with_graph call
    gOut,        \* what the call returned, and what it ran
    llmIn,       \* arguments, environment and provider behaviour of a call of
                 \* process_content_with_structured_output
    llmOut,      \* the triple it returned and the requests it issued
    prIn,        \* an output schema, a base prompt and context hints
    prOut,       \* the field instructions and system prompts built from them
    cfgIn,       \* the configuration files of the project and user folders
    cfgOut,      \* what get_prompts_and_settings returned
    pIn,         \* the ShowroomState handed to the process_showroom node
    pOut,        \* the node's update and the Document after the node
    raceRemote,  \* the remote repository two concurrent invocations share
    raceCache,   \* the cache directory they share
    raceProc,    \* each invocation's position, locals and operation counts
    tmpIn,       \* the remote and failures met by a no-cache remote fetch
    tmpOut       \* the temporary directories and the result of that fetch

acqVars == <<remote, defaultBr, advances, cache, last>>

keyVars == <<keyIn, keyOut>>

locVars == <<locFs, locLast>>

iterVars == <<iterIn, iterPc, iterIssued, iterSubs, iterOut>>

navVars == <<navIn, navOut>>

titVars == <<titIn, titOut>>

exVars == <<exIn, exOut>>

graphVars == <<gIn, gOut>>

llmVars == <<llmIn, llmOut>>

prVars == <<prIn, prOut>>

cfgVars == <<cfgIn, cfgOut>>

procVars == <<pIn, pOut>>

raceVars == <<raceRemote, raceCache, raceProc>>

tmpVars == <<tmpIn, tmpOut>>

\* the acquisition, text and graph components; the invocation, prompt,
\* configuration, concurrency and clean-up components
earlierVars ==
    <<acqVars, keyVars, locVars, iterVars, navVars, titVars, exVars, graphVars>>

laterVars == <<llmVars, prVars, cfgVars, procVars, raceVars, tmpVars>>

vars == <<earlierVars, laterVars>>

\* what each component leaves alone
notAcq == <<keyVars, locVars, iterVars, navVars, titVars, exVars, graphVars, laterVars>>
notKey == <<acqVars, locVars, iterVars, navVars, titVars, exVars, graphVars, laterVars>>
notLoc == <<acqVars, keyVars, iterVars, navVars, titVars, exVars, graphVars, laterVars>>
notIter == <<acqVars, keyVars, locVars, navVars, titVars, exVars, graphVars, laterVars>>
notNav == <<acqVars, keyVars, locVars, iterVars, titVars, exVars, graphVars, laterVars>>
notTit == <<acqVars, keyVars, locVars, iterVars, navVars, exVars, graphVars, laterVars>>
notEx == <<acqVars, keyVars, locVars, iterVars, navVars, titVars, graphVars, laterVars>>
notGraph == <<acqVars, keyVars, locVars, iterVars, navVars, titVars, exVars, laterVars>>
notLlm == <<earlierVars, prVars, cfgVars, procVars, raceVars, tmpVars>>
notPr == <<earlierVars, llmVars, cfgVars, procVars, raceVars, tmpVars>>
notCfg == <<earlierVars, llmVars, prVars, procVars, raceVars, tmpVars>>
notProc == <<earlierVars, llmVars, prVars, cfgVars, raceVars, tmpVars>>
notRace == <<earlierVars, llmVars, prVars, cfgVars, procVars, tmpVars>>
notTmp == <<earlierVars, llmVars, prVars, cfgVars, procVars, raceVars>>

----------------------------------------------------------------------------
(* Bounds *)

\* number of commits pushed to the remote during a behaviour
MaxAdvance == 2

----------------------------------------------------------------------------
(* The remote repository and git working copies *)

Branches == {"main", "dev"}

\* branches the remote may name as its default branch
DefaultCandidates == {"main", "dev"}

\* the commit a branch of the remote points at when the behaviour starts
InitialCommit(b) == IF b = "main" THEN 1 ELSE 2

NoBranches == [b \in Branches |-> 0]

\* a directory of the given kind that holds no usable repository data
\*   "absent"  : the path does not exist
\*   "empty"   : an empty directory
\*   "remnant" : a non-empty directory without a .git entry
\*   "corrupt" : a directory with a .git entry that git cannot open
\*   "repo"    : a valid git working copy
Dir(k) == [kind |-> k, branch |-> "none", heads |-> NoBranches, origin |-> NoBranches]

\* repo_path.exists()
PathExists(wc) == wc.kind # "absent"

\* (repo_path / ".git").exists()
HasDotGit(wc) == wc.kind \in {"repo", "corrupt"}

\* repo.head.commit.hexsha
current_commit(wc) == IF wc.branch = "none" THEN 0 ELSE wc.heads[wc.branch]

\* repo.remotes.origin.fetch(): refresh the remote-tracking refs, nothing else
fetch(wc, rem) ==
    [wc EXCEPT !.origin = [b \in Branches |-> IF rem[b] # 0 THEN rem[b] ELSE @[b]]]

\* repo.git.checkout(ref): switch to the local branch, creating it from
\* origin/<ref> when only the remote-tracking ref exists; a local branch that
\* already exists is NOT moved.  Fails when the ref cannot be resolved.
checkout(wc, ref) ==
    IF wc.heads[ref] # 0
    THEN [ok |-> TRUE, wc |-> [wc EXCEPT !.branch = ref]]
    ELSE IF wc.origin[ref] # 0
    THEN [ok |-> TRUE,
          wc |-> [wc EXCEPT !.branch = ref, !.heads[ref] = wc.origin[ref]]]
    ELSE [ok |-> FALSE, wc |-> wc]

\* git.Repo.clone_from(git_url, repo_path): git refuses a destination that
\* exists and is not an empty directory; a failed clone leaves the
\* destination as it found it.
clone_from(wc, rem, def, netOk) ==
    IF wc.kind \in {"remnant", "corrupt", "repo"} \/ ~netOk
    THEN [ok |-> FALSE, wc |-> wc]
    ELSE [ok |-> TRUE,
          wc |-> [kind |-> "repo", branch |-> def,
                  heads |-> [b \in Branches |-> IF b = def THEN rem[def] ELSE 0],
                  origin |-> rem]]

\* shutil.rmtree(repo_path, ignore_errors=True): errors are swallowed, so the
\* call leaves whatever it could not delete.  how = "removed" is the call
\* that met no error.
RmtreeOutcomes == {"removed", "empty", "remnant", "corrupt"}

rmtree(wc, how) == IF how = "removed" THEN Dir("absent") ELSE Dir(how)

----------------------------------------------------------------------------
(* Cache management: is_cached_repo_current, update_cached_repo *)

\* refs whose currency is checked against the remote
RemoteCheckedRefs == {"main", "master"}

\* repo.commit(target_ref): resolves a local branch; 0 when unresolvable
ResolveLocal(wc, ref) == wc.heads[ref]

\* is_cached_repo_current(repo_path, target_ref): the verdict and the working
\* copy as the call leaves it (the fetch refreshes the remote-tracking refs)
is_cached_repo_current(wc, ref, rem, fetchOk) ==
    IF wc.kind # "repo" \/ current_commit(wc) = 0
    THEN [current |-> FALSE, wc |-> wc]           \* git.Repo / head.commit raises
    ELSE IF ref \in RemoteCheckedRefs /\ ~fetchOk
    THEN [current |-> FALSE, wc |-> wc]           \* the fetch raises
    ELSE LET w1 == IF ref \in RemoteCheckedRefs THEN fetch(wc, rem) ELSE wc
         IN  IF ref \in RemoteCheckedRefs /\ w1.origin[ref] # 0
             THEN [current |-> current_commit(w1) = w1.origin[ref], wc |-> w1]
             ELSE IF ResolveLocal(w1, ref) = 0
             THEN [current |-> FALSE, wc |-> w1]  \* the ref does not resolve
             ELSE [current |-> current_commit(w1) = ResolveLocal(w1, ref), wc |-> w1]

\* update_cached_repo(repo_path, git_ref): fetch, then checkout; no pull
update_cached_repo(wc, ref, rem, fetchOk) ==
    IF wc.kind # "repo" \/ ~fetchOk
    THEN [ok |-> FALSE, wc |-> wc]
    ELSE LET co == checkout(fetch(wc, rem), ref)
         IN  [ok |-> co.ok, wc |-> co.wc]

----------------------------------------------------------------------------
(* get_or_clone_repository *)

\* the branch name the clone paths compare git_ref with
AssumedDefault == "main"

\* a clone path that tries the clone a second time when the first fails
fresh_clone_with_retry(wc, ref, rem, def, netOk) ==
    LET cl == clone_from(wc, rem, def, netOk)
    IN  IF ~cl.ok
        THEN [result |-> "none", wc |-> cl.wc, ops |-> <<"clone", "clone">>,
              cloneOk |-> FALSE]
        ELSE IF ref # "main"
        THEN LET co == checkout(cl.wc, ref)
             IN  [result |-> IF co.ok THEN "path" ELSE "none", wc |-> co.wc,
                  ops |-> <<"clone", "checkout">>, cloneOk |-> TRUE]
        ELSE [result |-> "path", wc |-> cl.wc, ops |-> <<"clone">>, cloneOk |-> TRUE]

\* "Clone fresh repository": clone_from, then checkout when git_ref != "main";
\* shared by the no-cache path and the cache path
FreshClone(wc, ref, rem, def, netOk) ==
    LET cl == clone_from(wc, rem, def, netOk)
    IN  IF ~cl.ok
        THEN [result |-> "none", wc |-> cl.wc, ops |-> <<"clone">>, cloneOk |-> FALSE]
        ELSE IF ref # AssumedDefault
        THEN LET co == checkout(cl.wc, ref)
             IN  [result |-> IF co.ok THEN "path" ELSE "none", wc |-> co.wc,
                  ops |-> <<"clone", "checkout">>, cloneOk |-> TRUE]
        ELSE [result |-> "path", wc |-> cl.wc, ops |-> <<"clone">>, cloneOk |-> TRUE]

\* a get_or_clone_repository that hands back the cached copy although its
\* update failed, without removing and re-cloning it
get_or_clone_keep_broken(wc, ref, rem, def, noCache, n1, n2, n3, how) ==
    IF noCache
    THEN LET fc == FreshClone(Dir("absent"), ref, rem, def, n3)
         IN  [result |-> fc.result, wc |-> fc.wc, class |-> "NOCACHE",
              ops |-> fc.ops, updateOk |-> FALSE, cloneOk |-> fc.cloneOk]
    ELSE IF PathExists(wc) /\ HasDotGit(wc)
    THEN LET cur == is_cached_repo_current(wc, ref, rem, n1)
             up  == update_cached_repo(cur.wc, ref, rem, n2)
         IN  IF cur.current
             THEN [result |-> "path", wc |-> cur.wc, class |-> "CURRENT",
                   ops |-> <<"is_current">>, updateOk |-> FALSE, cloneOk |-> FALSE]
             ELSE [result |-> "path", wc |-> up.wc, class |-> "STALE",
                   ops |-> <<"is_current", "update">>,
                   updateOk |-> up.ok, cloneOk |-> FALSE]
    ELSE LET fc == FreshClone(wc, ref, rem, def, n3)
         IN  [result |-> fc.result, wc |-> fc.wc, class |-> "MISS",
              ops |-> fc.ops, updateOk |-> FALSE, cloneOk |-> fc.cloneOk]

\* get_or_clone_repository(git_url, git_ref, cache_dir, no_cache) on the
\* directory wc of the cache key (with no_cache: on the new directory made by
\* tempfile.mkdtemp): what is returned, what the directory becomes, how the
\* entry was classified and which operations were issued, in order
get_or_clone_repository(wc, ref, rem, def, noCache, n1, n2, n3, how) ==
    IF noCache
    THEN LET fc == FreshClone(Dir("absent"), ref, rem, def, n3)
         IN  [result |-> fc.result, wc |-> fc.wc, class |-> "NOCACHE",
              ops |-> fc.ops, updateOk |-> FALSE, cloneOk |-> fc.cloneOk]
    ELSE IF PathExists(wc) /\ HasDotGit(wc)
    THEN LET cur == is_cached_repo_current(wc, ref, rem, n1)
         IN  IF cur.current
             THEN [result |-> "path", wc |-> cur.wc, class |-> "CURRENT",
                   ops |-> <<"is_current">>, updateOk |-> FALSE, cloneOk |-> FALSE]
             ELSE LET up == update_cached_repo(cur.wc, ref, rem, n2)
                  IN  IF up.ok
                      THEN [result |-> "path", wc |-> up.wc, class |-> "STALE",
                            ops |-> <<"is_current", "update">>,
                            updateOk |-> TRUE, cloneOk |-> FALSE]
                      ELSE LET fc == FreshClone(rmtree(up.wc, how), ref, rem, def, n3)
                           IN  [result |-> fc.result, wc |-> fc.wc, class |-> "STALE",
                                ops |-> <<"is_current", "update", "rmtree">> \o fc.ops,
                                updateOk |-> FALSE, cloneOk |-> fc.cloneOk]
    ELSE LET fc == FreshClone(wc, ref, rem, def, n3)
         IN  [result |-> fc.result, wc |-> fc.wc, class |-> "MISS",
              ops |-> fc.ops, updateOk |-> FALSE, cloneOk |-> fc.cloneOk]

\* what the caller of get_or_clone_repository can observe of one call
Observe(mode, ref, start, r, rem, how, n3) ==
    [mode |-> mode, ref |-> ref, start |-> start.kind,
     startHead |-> current_commit(start), cloneNet |-> n3, class |-> r.class,
     ops |-> r.ops, updateOk |-> r.updateOk, cloneOk |-> r.cloneOk,
     result |-> r.result, branch |-> r.wc.branch, head |-> current_commit(r.wc),
     kind |-> r.wc.kind, target |-> rem[ref], rm |-> how]

NoCall ==
    [mode |-> "none", ref |-> "main", start |-> "absent",
     startHead |-> 0, cloneNet |-> FALSE, class |-> "NONE",
     ops |-> <<>>, updateOk |-> FALSE, cloneOk |-> FALSE, result |-> "none",
     branch |-> "none", head |-> 0, kind |-> "absent", target |-> 0, rm |-> "removed"]

----------------------------------------------------------------------------
(* Actions of the acquisition state machine *)

AcqInit ==
    /\ defaultBr \in DefaultCandidates
    /\ remote \in {r \in [Branches -> 0..Cardinality(Branches)] :
                     /\ \A b \in Branches : r[b] \in {0, InitialCommit(b)}
                     /\ r[defaultBr] # 0}
    /\ advances = 0
    /\ cache = [r \in Branches |-> Dir("absent")]
    /\ last = NoCall

\* somebody pushes a commit to branch b of the remote
RemoteAdvance(b) ==
    /\ advances < MaxAdvance
    /\ remote[b] # 0
    /\ advances' = advances + 1
    /\ remote' = [remote EXCEPT ![b] = Cardinality(Branches) + advances + 1]
    /\ UNCHANGED <<defaultBr, cache, last>>
    /\ UNCHANGED notAcq

\* get_or_clone_repository(git_url, ref, no_cache=False)
GetOrCloneCached(ref, n1, n2, n3, how) ==
    LET r == get_or_clone_repository(cache[ref], ref, remote, defaultBr, FALSE,
                                     n1, n2, n3, how)
    IN  /\ cache' = [cache EXCEPT ![ref] = r.wc]
        /\ last' = Observe("cache", ref, cache[ref], r, remote, how, n3)
        /\ UNCHANGED <<remote, defaultBr, advances>>
        /\ UNCHANGED notAcq

\* get_or_clone_repository(git_url, ref, no_cache=True): tempfile.mkdtemp()
\* gives a new directory, the clone goes to <temp_dir>/showroom
GetOrCloneNoCache(ref, n3) ==
    LET r == get_or_clone_repository(Dir("absent"), ref, remote, defaultBr, TRUE,
                                     TRUE, TRUE, n3, "removed")
    IN  /\ last' = Observe("nocache", ref, Dir("absent"), r, remote, "removed", n3)
        /\ UNCHANGED <<remote, defaultBr, advances, cache>>
        /\ UNCHANGED notAcq

AcqNext ==
    \/ \E b \in Branches : RemoteAdvance(b)
    \/ \E ref \in Branches, n1, n2, n3 \in BOOLEAN, how \in RmtreeOutcomes :
          GetOrCloneCached(ref, n1, n2, n3, how)
    \/ \E ref \in Branches, n3 \in BOOLEAN : GetOrCloneNoCache(ref, n3)

\* no cache key is being computed
KeyIdle == keyIn = <<>> /\ keyOut = <<>>

\* no acquisition is under way
AcqIdle ==
    /\ defaultBr = "main" /\ remote = NoBranches /\ advances = 0
    /\ cache = [r \in Branches |-> Dir("absent")] /\ last = NoCall

\* no local-directory call is under way
LocIdle == locFs = <<>> /\ locLast = <<>>

\* no iterative call is under way
IterIdle ==
    /\ iterIn = <<>> /\ iterPc = "idle" /\ iterIssued = <<>>
    /\ iterSubs = <<>> /\ iterOut = <<>>

\* no navigation file is being parsed
NavIdle == navIn = <<>> /\ navOut = <<>>

\* no title is being extracted
TitIdle == titIn = <<>> /\ titOut = <<>>

\* no extraction is under way
ExIdle == exIn = <<>> /\ exOut = <<>>

\* no graph run is under way
GraphIdle == gIn = <<>> /\ gOut = <<>>

\* no structured invocation, prompt construction, configuration merge or
\* processing node is under way
LlmIdle == llmIn = <<>> /\ llmOut = <<>>

PrIdle == prIn = <<>> /\ prOut = <<>>

CfgIdle == cfgIn = <<>> /\ cfgOut = <<>>

ProcIdle == pIn = <<>> /\ pOut = <<>>

\* no concurrent invocations and no temporary clone exist
RaceIdle == raceRemote = <<>> /\ raceCache = <<>> /\ raceProc = <<>>

TmpIdle == tmpIn = <<>> /\ tmpOut = <<>>

LaterIdle == LlmIdle /\ PrIdle /\ CfgIdle /\ ProcIdle /\ RaceIdle /\ TmpIdle

\* none of the text, extraction and graph components is active
RestIdle == NavIdle /\ TitIdle /\ ExIdle /\ GraphIdle /\ LaterIdle

\* none of the acquisition, text and graph components is active
EarlierIdle ==
    AcqIdle /\ KeyIdle /\ LocIdle /\ IterIdle /\ NavIdle /\ TitIdle /\ ExIdle /\ GraphIdle

Init == AcqInit /\ KeyIdle /\ LocIdle /\ IterIdle /\ RestIdle

Spec == Init /\ [][AcqNext]_vars

----------------------------------------------------------------------------
(* Claims about the acquisition state machine (checked under Spec) *)

\* C1: in cache mode, when the cached working copy is classified stale and
\* update_cached_repo fails, the call issues rmtree on the cache directory and
\* then a fresh clone into the same path (an rmtree that met no error leaves
\* the path absent for that clone), and it returns the path only when that
\* re-clone succeeded, never the copy whose update failed.
C1_StaleUpdateFailureReclones ==
    (last.mode = "cache" /\ last.class = "STALE" /\ ~last.updateOk) =>
        /\ Len(last.ops) >= 4
        /\ SubSeq(last.ops, 1, 4) = <<"is_current", "update", "rmtree", "clone">>
        /\ (last.result = "path" => last.cloneOk /\ last.kind = "repo")
        /\ (last.rm = "removed" /\ ~last.cloneOk => last.kind = "absent")
        /\ (last.rm = "removed" /\ last.cloneNet => last.cloneOk)

\* C1 witness: a stale-update failed and the re-clone into the cache path succeeded
C1_Witness ==
    /\ last.mode = "cache" /\ last.class = "STALE" /\ ~last.updateOk
    /\ last.start = "repo" /\ last.cloneOk /\ last.result = "path"

\* C2: a cached working copy of a branch whose checked-out commit differs
\* from the remote's commit for that branch, once the stale-update succeeds,
\* is returned (READY) checked out at the remote's current commit.
C2_StaleUpdateReachesRemote ==
    (/\ last.mode = "cache" /\ last.class = "STALE" /\ last.updateOk
     /\ last.target # 0 /\ last.startHead # last.target) =>
        last.result = "path" /\ last.head = last.target

\* C3: for every branch ref, a cached working copy is classified current
\* (CACHE_HIT_CURRENT) only if its checked-out commit equals the remote's
\* commit for that ref.
C3_CurrentOnlyIfEqualsRemote ==
    (last.mode = "cache" /\ last.class = "CURRENT" /\ last.target # 0) =>
        last.head = last.target

\* C4: a cache path that exists without a valid working copy is treated as
\* absent: whenever cloning the remote and checking out the ref would
\* succeed, the invocation overwrites it with a fresh clone and returns the
\* path; and a returned path is always a valid working copy.
C4_InvalidPathIsRecloned ==
    /\ (/\ last.mode = "cache"
        /\ last.start \in {"empty", "remnant", "corrupt"}
        /\ last.cloneNet /\ last.target # 0 /\ last.rm = "removed") =>
            last.result = "path"
    /\ (last.result = "path" => last.kind = "repo")

\* C7: on a fresh clone a checkout of ref is attempted whenever ref differs
\* from the repository's default branch, a returned path is checked out at
\* the requested ref, and a clone or checkout failure yields None.
C7_ReadyIsAtRequestedRef ==
    (last.mode # "none" /\ last.ops # <<>> /\ last.ops[Len(last.ops)] \in {"clone", "checkout"}) =>
        /\ (last.cloneOk /\ last.ref # defaultBr => last.ops[Len(last.ops)] = "checkout")
        /\ (last.result = "path" => last.branch = last.ref)
        /\ (~last.cloneOk => last.result = "none")
        /\ (last.ops[Len(last.ops)] = "checkout" /\ last.branch # last.ref =>
               last.result = "none")

----------------------------------------------------------------------------
(* generate_cache_key *)

\* number of ".git" suffixes appended to a URL stem
MaxGitSuffixes == 2

\* str.lower() on the characters used
lower_char(c) ==
    CASE c = "H" -> "h" [] c = "R" -> "r" [] c = "X" -> "x" [] c = "Y" -> "y"
      [] c = "G" -> "g" [] c = "I" -> "i" [] c = "T" -> "t" [] OTHER -> c

lower(s) == [i \in 1..Len(s) |-> lower_char(s[i])]

DotGit == <<".", "g", "i", "t">>

\* str.endswith(suffix)
endswith(s, suf) ==
    Len(s) >= Len(suf) /\ SubSeq(s, Len(s) - Len(suf) + 1, Len(s)) = suf

\* a normalisation that forgets to lower-case the URL
normalized_url_keep_case(u) ==
    IF endswith(u, DotGit) THEN SubSeq(u, 1, Len(u) - Len(DotGit)) ELSE u

\* normalized_url: lower-cased, one trailing ".git" removed
normalized_url(u) ==
    LET l == lower(u)
    IN  IF endswith(l, DotGit) THEN SubSeq(l, 1, Len(l) - Len(DotGit)) ELSE l

\* content_to_hash = f"{normalized_url}#{git_ref}"
content_to_hash(u, r) == normalized_url(u) \o <<"#">> \o r

\* hashlib.sha256(...).hexdigest()[:16], idealised as collision-free: the
\* digest is identified by the string that was hashed
sha256_hex16(s) == <<"sha256/16", s>>

generate_cache_key(u, r) == sha256_hex16(content_to_hash(u, r))

\* sample URLs: a stem followed by up to MaxGitSuffixes ".git" suffixes in
\* mixed case; sample refs, some containing the separator character
UrlStems ==
    { <<"h", "/", "r">>, <<"H", "/", "r">>, <<"h", "/", "R">>,
      <<"h", "/", "r", "#", "x">>, <<"h", "/", "r", "#", "X">> }

GitSuffixes == { DotGit, <<".", "G", "i", "T">> }

RECURSIVE WithSuffixes(_)
WithSuffixes(n) ==
    IF n = 0 THEN UrlStems
    ELSE LET shorter == WithSuffixes(n - 1)
         IN  shorter \cup {u \o g : u \in shorter, g \in GitSuffixes}

SampleUrls == WithSuffixes(MaxGitSuffixes)

SampleRefs == { <<"x">>, <<"X">>, <<"y">>, <<"x", "#", "y">> }

KeyInit ==
    /\ keyIn \in [u1 : SampleUrls, r1 : SampleRefs, u2 : SampleUrls, r2 : SampleRefs]
    /\ keyOut = <<>>

\* two calls of generate_cache_key
ComputeKeys ==
    /\ keyOut = <<>>
    /\ keyOut' = [k1 |-> generate_cache_key(keyIn.u1, keyIn.r1),
                  k2 |-> generate_cache_key(keyIn.u2, keyIn.r2),
                  c1 |-> content_to_hash(keyIn.u1, keyIn.r1),
                  c2 |-> content_to_hash(keyIn.u2, keyIn.r2)]
    /\ UNCHANGED keyIn
    /\ UNCHANGED notKey

KeyNext == ComputeKeys

InitKey == KeyInit /\ AcqIdle /\ LocIdle /\ IterIdle /\ RestIdle

SpecKey == InitKey /\ [][KeyNext]_vars

\* the two URLs are the same up to letter case
SameUpToCase(a, b) == lower(a) = lower(b)

\* a is b plus one trailing ".git" suffix, up to letter case
OneGitLonger(a, b) == lower(a) = lower(b) \o DotGit

\* the two URLs differ only in letter case and/or in one trailing ".git"
DifferOnlyByCaseAndGit(a, b) ==
    SameUpToCase(a, b) \/ OneGitLonger(a, b) \/ OneGitLonger(b, a)

\* C9 as stated: two URLs that differ only in letter case and/or in one
\* trailing ".git" suffix give the same key for the same ref.
C9_AnyTrailingGitSameKey ==
    (/\ keyOut # <<>> /\ keyIn.r1 = keyIn.r2
     /\ DifferOnlyByCaseAndGit(keyIn.u1, keyIn.u2)) =>
        keyOut.k1 = keyOut.k2

\* C9 amended: two URLs that are equal up to letter case, or of which one is
\* the other plus one trailing ".git" suffix (in any letter case) while the
\* other does not itself end in ".git", give the same key for the same ref;
\* the ref is not normalised: same URL and refs that differ (even only in
\* letter case) give different hashed strings.
C9_NormalizedUrlSameKey ==
    keyOut # <<>> =>
        /\ (/\ keyIn.r1 = keyIn.r2
            /\ \/ SameUpToCase(keyIn.u1, keyIn.u2)
               \/ /\ OneGitLonger(keyIn.u1, keyIn.u2)
                  /\ ~endswith(lower(keyIn.u2), DotGit)
               \/ /\ OneGitLonger(keyIn.u2, keyIn.u1)
                  /\ ~endswith(lower(keyIn.u1), DotGit)) =>
               keyOut.k1 = keyOut.k2
        /\ (keyIn.u1 = keyIn.u2 /\ keyIn.r1 # keyIn.r2 => keyOut.c1 # keyOut.c2)

\* C9 witness: the keys of "h/r.GiT" and "H/r" for the same ref were computed
C9_Witness ==
    /\ keyOut # <<>> /\ keyIn.r1 = keyIn.r2
    /\ keyIn.u1 = <<"h", "/", "r", ".", "G", "i", "T">>
    /\ keyIn.u2 = <<"H", "/", "r">>
    /\ keyOut.k1 = keyOut.k2

\* C10: two distinct (normalized URL, ref) pairs never give the same hashed
\* string (hence, the hash being injective, never the same cache key), also
\* when URLs and refs contain the separator character.
C10_DistinctPairsDistinctKeys ==
    (/\ keyOut # <<>>
     /\ <<normalized_url(keyIn.u1), keyIn.r1>> # <<normalized_url(keyIn.u2), keyIn.r2>>) =>
        keyOut.c1 # keyOut.c2 /\ keyOut.k1 # keyOut.k2

----------------------------------------------------------------------------
(* parse_navigation_file *)

\* number of lines of a navigation file
MaxNavLines == 3

Whitespace == {" "}

\* str.startswith(prefix)
startswith(s, pre) == Len(s) >= Len(pre) /\ SubSeq(s, 1, Len(pre)) = pre

\* str.strip(): leading and trailing whitespace removed
RECURSIVE lstrip(_)
lstrip(s) == IF s # <<>> /\ Head(s) \in Whitespace THEN lstrip(Tail(s)) ELSE s

RECURSIVE rstrip(_)
rstrip(s) ==
    IF s # <<>> /\ s[Len(s)] \in Whitespace
    THEN rstrip(SubSeq(s, 1, Len(s) - 1))
    ELSE s

strip(s) == rstrip(lstrip(s))

\* the literals of the pattern and of the line test
XrefBullet == <<"*", " ", "x", "r", "e", "f", ":">>
AdocSuffix == <<".", "a", "d", "o", "c">>
Brackets == {"[", "]"}

\* t occurs in s at position p
HasAt(s, p, t) == p + Len(t) - 1 <= Len(s) /\ SubSeq(s, p, p + Len(t) - 1) = t

\* length of the run of non-bracket characters of s that starts at p
RECURSIVE RunLen(_, _)
RunLen(s, p) ==
    IF p <= Len(s) /\ s[p] \notin Brackets THEN 1 + RunLen(s, p + 1) ELSE 0

\* the lengths group 1 of the pattern can take when the pattern is matched
\* at position p: "* xref:", then one or more non-bracket characters, then
\* ".adoc"
GroupLens(s, p) ==
    IF HasAt(s, p, XrefBullet)
    THEN {k \in 1..RunLen(s, p + Len(XrefBullet)) :
              HasAt(s, p + Len(XrefBullet) + k, AdocSuffix)}
    ELSE {}

\* re.search(r"\* xref:([^[\]]+)\.adoc", line): the leftmost position where
\* the pattern matches and, the quantifier being greedy, the longest group 1
\* there; found = FALSE when the pattern matches nowhere
re_search(line) ==
    LET ps == {p \in 1..Len(line) : GroupLens(line, p) # {}}
    IN  IF ps = {} THEN [found |-> FALSE, group |-> <<>>]
        ELSE LET p == CHOOSE x \in ps : \A y \in ps : x <= y
                 ks == GroupLens(line, p)
                 k == CHOOSE x \in ks : \A y \in ks : y <= x
                 q == p + Len(XrefBullet)
             IN  [found |-> TRUE, group |-> SubSeq(line, q, q + k - 1)]

Range(q) == {q[i] : i \in 1..Len(q)}

\* the loop of parse_navigation_file over the lines, module_files so far
RECURSIVE parse_lines(_, _)
parse_lines(lines, module_files) ==
    IF lines = <<>> THEN module_files
    ELSE LET line == strip(Head(lines))
             match == re_search(line)
             filename == match.group \o AdocSuffix
         IN  IF /\ startswith(line, XrefBullet)
                /\ match.found
                /\ filename \notin Range(module_files)
             THEN parse_lines(Tail(lines), Append(module_files, filename))
             ELSE parse_lines(Tail(lines), module_files)

\* parse_navigation_file(nav_path) for a nav.adoc that exists or not and
\* whose text, split at "\n", is nav.lines
parse_navigation_file(nav) ==
    IF ~nav.exists
    THEN [raised |-> TRUE, files |-> <<>>]
    ELSE [raised |-> FALSE, files |-> parse_lines(nav.lines, <<>>)]

\* lines of a navigation file: an indentation, a bullet marker of depth one
\* or two, a reference in xref: or link: syntax to a.adoc or b.adoc and a
\* bracketed caption; a blank line; an entry that names no .adoc file
NavFiles == {<<"a">> \o AdocSuffix, <<"b">> \o AdocSuffix}
XrefSyntax == <<"x", "r", "e", "f", ":">>
LinkSyntax == <<"l", "i", "n", "k", ":">>
RefSyntaxes == {XrefSyntax, LinkSyntax}
BulletMarkers == {<<"*">>, <<"*", "*">>}
Caption == <<"[", "T", "]">>

NavLine(indent, marker, syntax, file) ==
    indent \o marker \o <<" ">> \o syntax \o file \o Caption

SampleNavLines ==
    {NavLine(<<>>, m, x, f) : m \in BulletMarkers, x \in RefSyntaxes, f \in NavFiles}
    \cup {NavLine(<<" ", " ">>, <<"*">>, XrefSyntax, <<"a">> \o AdocSuffix) \o <<" ">>,
          <<>>,
          XrefBullet \o <<"a">> \o Caption}

RECURSIVE NavLinesUpTo(_)
NavLinesUpTo(n) ==
    IF n = 0 THEN {<<>>}
    ELSE LET shorter == NavLinesUpTo(n - 1)
         IN  shorter \cup
             {Append(q, l) : q \in {x \in shorter : Len(x) = n - 1}, l \in SampleNavLines}

NavInit ==
    /\ navIn \in {[exists |-> FALSE, lines |-> <<>>]}
                 \cup [exists : {TRUE}, lines : NavLinesUpTo(MaxNavLines)]
    /\ navOut = <<>>

ParseNav ==
    /\ navOut = <<>>
    /\ navOut' = parse_navigation_file(navIn)
    /\ UNCHANGED navIn
    /\ UNCHANGED notNav

NavNext == ParseNav

InitNav == NavInit /\ AcqIdle /\ KeyIdle /\ LocIdle /\ IterIdle
           /\ TitIdle /\ ExIdle /\ GraphIdle /\ LaterIdle

SpecNav == InitNav /\ [][NavNext]_vars

\* line i of the file is an entry with the given bullet marker that
\* references file f, in either reference syntax
EntryAt(lines, i, marker, f) ==
    \E x \in RefSyntaxes : startswith(strip(lines[i]), marker \o <<" ">> \o x \o f)

TopLevelAt(lines, i, f) == EntryAt(lines, i, <<"*">>, f)

TopLevelFiles(lines) ==
    {f \in NavFiles : \E i \in 1..Len(lines) : TopLevelAt(lines, i, f)}

\* the line of f's first top-level occurrence
FirstTopLevel(lines, f) ==
    CHOOSE i \in 1..Len(lines) :
        TopLevelAt(lines, i, f) /\ \A j \in 1..(i - 1) : ~TopLevelAt(lines, j, f)

\* C11: the result holds only files referenced by top-level entries (a file
\* referenced only by nested entries is never in it), holds no file twice,
\* and lists its files in the order of their first top-level occurrences.
C11_TopLevelOnlyFirstOccurrence ==
    (navOut # <<>> /\ ~navOut.raised) =>
        LET files == navOut.files
        IN  /\ Range(files) \subseteq TopLevelFiles(navIn.lines)
            /\ \A i, j \in 1..Len(files) : i # j => files[i] # files[j]
            /\ \A i, j \in 1..Len(files) :
                   i < j => FirstTopLevel(navIn.lines, files[i])
                              < FirstTopLevel(navIn.lines, files[j])

\* C12: every file referenced by a top-level entry, in xref: or in link:
\* syntax, is in the result, and the result lists the files in the order
\* the entries are encountered.
C12_BothSyntaxesExtracted ==
    (navOut # <<>> /\ ~navOut.raised) =>
        /\ TopLevelFiles(navIn.lines) \subseteq Range(navOut.files)
        /\ \A i \in 1..Len(navIn.lines) :
               \A f \in NavFiles :
                   (TopLevelAt(navIn.lines, i, f)
                    /\ \A j \in 1..(i - 1) : ~TopLevelAt(navIn.lines, j, f)) =>
                       \E k \in 1..Len(navOut.files) :
                           /\ navOut.files[k] = f
                           /\ k = Cardinality({g \in NavFiles :
                                      \E j \in 1..i : TopLevelAt(navIn.lines, j, g)})

----------------------------------------------------------------------------
(* extract_module_name_from_content *)

\* number of lines of a page
MaxTitleLines == 4

Level1Prefix == <<"=", " ">>
Level2Prefix == <<"=", "=", " ">>
Level1Underline == "="
Level2Underline == "-"

NotFound == [found |-> FALSE, name |-> <<>>]

\* "for line in lines": the first line that, stripped, starts with the prefix
\* and is longer than it; its name is the rest of the line, stripped
RECURSIVE find_prefix_header(_, _)
find_prefix_header(lines, prefix) ==
    IF lines = <<>> THEN NotFound
    ELSE LET line == strip(Head(lines))
         IN  IF startswith(line, prefix) /\ Len(line) > Len(prefix)
             THEN [found |-> TRUE,
                   name |-> strip(SubSeq(line, Len(prefix) + 1, Len(line)))]
             ELSE find_prefix_header(Tail(lines), prefix)

\* all(c == ch for c in s)
all_chars(s, ch) == \A i \in 1..Len(s) : s[i] = ch

\* "if line and next_line and all(c == ch for c in next_line)"
underlined(line, next_line, ch) ==
    line # <<>> /\ next_line # <<>> /\ all_chars(next_line, ch)

\* "for i, line in enumerate(lines)": the first line, from line i on, that
\* has a next line and is underlined by it
RECURSIVE find_underline_header(_, _, _)
find_underline_header(lines, i, ch) ==
    IF i >= Len(lines) THEN NotFound
    ELSE LET line == strip(lines[i])
             next_line == strip(lines[i + 1])
         IN  IF underlined(line, next_line, ch)
             THEN [found |-> TRUE, name |-> line]
             ELSE find_underline_header(lines, i + 1, ch)

\* extract_module_name_from_content(content), lines = content.split("\n")
extract_module_name_from_content(lines) ==
    LET h1 == find_prefix_header(lines, Level1Prefix)
        u1 == find_underline_header(lines, 1, Level1Underline)
        h2 == find_prefix_header(lines, Level2Prefix)
        u2 == find_underline_header(lines, 1, Level2Underline)
    IN  IF h1.found THEN h1.name
        ELSE IF u1.found THEN u1.name
        ELSE IF h2.found THEN h2.name
        ELSE IF u2.found THEN u2.name
        ELSE <<>>

\* lines of a page: a level-1 and a level-2 prefix heading, two plain lines
\* of length two and one, underlines of length one and two, a blank line
SampleTitleLines ==
    {<<" ", "=", " ", "A", " ">>, <<"=", "=", " ", "B">>,
     <<"C", "c">>, <<"D">>,
     <<"=">>, <<"=", "=">>, <<"-">>,
     <<>>}

RECURSIVE TitleLinesUpTo(_)
TitleLinesUpTo(n) ==
    IF n = 0 THEN {<<>>}
    ELSE LET shorter == TitleLinesUpTo(n - 1)
         IN  shorter \cup
             {Append(q, l) : q \in {x \in shorter : Len(x) = n - 1},
                             l \in SampleTitleLines}

\* str.split("\n") gives at least one line
TitInit ==
    /\ titIn \in [lines : TitleLinesUpTo(MaxTitleLines) \ {<<>>}]
    /\ titOut = <<>>

ExtractName ==
    /\ titOut = <<>>
    /\ titOut' = [name |-> extract_module_name_from_content(titIn.lines)]
    /\ UNCHANGED titIn
    /\ UNCHANGED notTit

TitNext == ExtractName

InitTitle == TitInit /\ AcqIdle /\ KeyIdle /\ LocIdle /\ IterIdle
             /\ NavIdle /\ ExIdle /\ GraphIdle /\ LaterIdle

SpecTitle == InitTitle /\ [][TitNext]_vars

\* the headings of a text, as the heading forms are defined: a prefix
\* heading is a line that, stripped, is the prefix followed by a title; an
\* underline heading is a non-empty line immediately followed by a line made
\* of the underline character only and at least as long as the title line
PrefixTitles(lines, prefix) ==
    {strip(SubSeq(strip(lines[i]), Len(prefix) + 1, Len(strip(lines[i])))) :
        i \in {j \in 1..Len(lines) :
                  startswith(strip(lines[j]), prefix)
                  /\ Len(strip(lines[j])) > Len(prefix)}}

UnderlineTitles(lines, ch) ==
    {strip(lines[i]) :
        i \in {j \in 1..(Len(lines) - 1) :
                  /\ strip(lines[j]) # <<>>
                  /\ strip(lines[j + 1]) # <<>>
                  /\ all_chars(strip(lines[j + 1]), ch)
                  /\ Len(strip(lines[j + 1])) >= Len(strip(lines[j]))}}

Level1Titles(lines) ==
    PrefixTitles(lines, Level1Prefix) \cup UnderlineTitles(lines, Level1Underline)

Level2Titles(lines) ==
    PrefixTitles(lines, Level2Prefix) \cup UnderlineTitles(lines, Level2Underline)

\* C13: a text with a level-1 heading anywhere resolves to the text of a
\* level-1 heading, also when a level-2 heading comes earlier; the text of a
\* level-2 heading is returned only when the text has no level-1 heading, and
\* the empty string only when it has no heading of either level.
C13_Level1BeforeLevel2 ==
    titOut # <<>> =>
        LET l1 == Level1Titles(titIn.lines)
            l2 == Level2Titles(titIn.lines)
        IN  /\ (l1 # {} => titOut.name \in l1)
            /\ (titOut.name \in l2 \ l1 => l1 = {})
            /\ (titOut.name = <<>> => l1 = {} /\ l2 = {})

\* C14: a name that is not the title of a prefix heading is the title line
\* of an underline heading whose underline is at least as long as the title
\* line; a line followed by a shorter run of underline characters is never
\* returned.
C14_UnderlineAtLeastTitleLength ==
    titOut # <<>> =>
        \/ titOut.name = <<>>
        \/ titOut.name \in PrefixTitles(titIn.lines, Level1Prefix)
        \/ titOut.name \in PrefixTitles(titIn.lines, Level2Prefix)
        \/ titOut.name \in UnderlineTitles(titIn.lines, Level1Underline)
        \/ titOut.name \in UnderlineTitles(titIn.lines, Level2Underline)

----------------------------------------------------------------------------
(* fetch_showroom_repository with local_dir *)

\* directory names, as character sequences
TmpPrefix == <<"t", "m", "p">>
TmpWorkName == <<"t", "m", "p", "w">>
WorkName == <<"w", "k">>
RepoName == <<"r">>
NoName == <<"n">>
DotDot == <<".", ".">>

ParentNames == {TmpWorkName, WorkName}

\* the files a nav.adoc names, the title of the lab
FileA == <<"a">> \o AdocSuffix
FileB == <<"b">> \o AdocSuffix
LabTitle == <<"L", "a", "b">>
ModulesPrefix == <<"m", "o", "d", "u", "l", "e", "s", ":", ":">>

\* default-site.yml: absent, or a mapping whose site.title and
\* site.start_page are the given strings (<<>>: the key is missing or empty)
NoManifest == [exists |-> FALSE, title |-> <<>>, start_page |-> <<>>]
Manifest(title, start) == [exists |-> TRUE, title |-> title, start_page |-> start]

\* a page file: absent; present but open() or read() raises OSError;
\* present with bytes that are not UTF-8; or text, as its lines
NoPage == [state |-> "absent", lines |-> <<>>]
UnreadablePage == [state |-> "oserror", lines |-> <<>>]
UndecodablePage == [state |-> "undecodable", lines |-> <<>>]
TextPage(lines) == [state |-> "text", lines |-> lines]

\* the lines of the empty string
EmptyContent == << <<>> >>

HeadingLine == <<"=", " ", "B">>
BodyLine == <<"h", "i">>

NoNav == [exists |-> FALSE, lines |-> <<>>]
NavOf(lines) == [exists |-> TRUE, lines |-> lines]

\* nav.adoc with the top-level entries a.adoc and b.adoc
GoodNav ==
    NavOf(<<NavLine(<<>>, <<"*">>, XrefSyntax, FileA),
            NavLine(<<>>, <<"*">>, XrefSyntax, FileB)>>)

\* a.adoc without a heading, b.adoc with one
GoodPages ==
    [f \in NavFiles |->
        IF f = FileA THEN TextPage(<<BodyLine>>) ELSE TextPage(<<HeadingLine, BodyLine>>)]

NoRepoDir ==
    [exists |-> FALSE, git |-> FALSE, site |-> NoManifest, nav |-> NoNav,
     pages |-> [f \in NavFiles |-> NoPage]]

\* sample contents of a directory <parent>/r:
\*   git   : it has a .git entry
\*   site  : default-site.yml
\*   nav   : content/modules/ROOT/nav.adoc
\*   pages : the files of content/modules/ROOT/pages
SampleRepoDirs ==
    [exists : {TRUE}, git : BOOLEAN,
     site : {NoManifest, Manifest(<<>>, FileA), Manifest(LabTitle, <<>>),
             Manifest(LabTitle, FileA)},
     nav : {GoodNav}, pages : {GoodPages}]
    \cup
    { [exists |-> TRUE, git |-> TRUE, site |-> Manifest(LabTitle, FileA),
       nav |-> NoNav, pages |-> GoodPages],
      [exists |-> TRUE, git |-> TRUE, site |-> Manifest(LabTitle, FileA),
       nav |-> NavOf(EmptyContent), pages |-> GoodPages],
      [exists |-> TRUE, git |-> TRUE, site |-> Manifest(LabTitle, FileA),
       nav |-> GoodNav, pages |-> [GoodPages EXCEPT ![FileA] = NoPage]],
      [exists |-> TRUE, git |-> TRUE, site |-> Manifest(LabTitle, FileA),
       nav |-> GoodNav, pages |-> [GoodPages EXCEPT ![FileA] = UndecodablePage]] }

AbsentParent == [exists |-> FALSE, repo |-> NoRepoDir]

\* Path.exists() of a path (a sequence of names below the root)
FsExists(fs, path) ==
    CASE Len(path) = 0 -> TRUE
      [] Len(path) = 1 -> path[1] \in ParentNames /\ fs[path[1]].exists
      [] Len(path) = 2 -> /\ path[1] \in ParentNames /\ fs[path[1]].exists
                          /\ path[2] = RepoName /\ fs[path[1]].repo.exists
      [] OTHER -> FALSE

\* (repo_path / ".git").exists()
FsHasDotGit(fs, path) ==
    Len(path) = 2 /\ FsExists(fs, path) /\ fs[path[1]].repo.git

\* Path(local_dir).resolve(): ".." steps are folded away
RECURSIVE resolve_from(_, _)
resolve_from(done, rest) ==
    IF rest = <<>> THEN done
    ELSE IF Head(rest) = DotDot
    THEN resolve_from(IF done = <<>> THEN done ELSE SubSeq(done, 1, Len(done) - 1),
                     Tail(rest))
    ELSE resolve_from(Append(done, Head(rest)), Tail(rest))

resolve(path) == resolve_from(<<>>, path)

\* repo_path.parent.name
ParentName(path) == IF Len(path) >= 2 THEN path[Len(path) - 1] ELSE <<>>

\* shutil.rmtree(repo_path.parent, ignore_errors=True)
rmtree_parent(fs, path) ==
    IF Len(path) >= 2 /\ path[1] \in ParentNames
    THEN [fs EXCEPT ![path[1]] = AbsentParent]
    ELSE fs

\* extract_lab_info_from_site_yaml(repo_path)
extract_lab_info_from_site_yaml(site) ==
    IF ~site.exists \/ site.title = <<>> \/ site.start_page = <<>>
    THEN [raised |-> TRUE, lab_name |-> <<>>, start_page |-> <<>>]
    ELSE [raised |-> FALSE, lab_name |-> site.title, start_page |-> site.start_page]

\* pages_dir / filename
PageOf(pages, filename) ==
    IF filename \in DOMAIN pages THEN pages[filename] ELSE NoPage

\* read_module_content(pages_dir, filename): ("", "") for a file that is
\* absent or whose reading raises OSError; the UnicodeDecodeError of
\* undecodable bytes is no OSError and leaves the function
read_module_content(pages, filename) ==
    LET page == PageOf(pages, filename)
    IN  CASE page.state = "text" ->
                [raised |-> FALSE,
                 module_name |-> extract_module_name_from_content(page.lines),
                 module_content |-> page.lines]
          [] page.state = "undecodable" ->
                [raised |-> TRUE, module_name |-> <<>>, module_content |-> EmptyContent]
          [] OTHER ->
                [raised |-> FALSE, module_name |-> <<>>, module_content |-> EmptyContent]

\* a start-page rule that gives the manifest title to every module without
\* a heading
module_name_for_any_page(module_name, filename, lab_name, start_page) ==
    IF module_name = <<>> /\ lab_name # <<>> THEN lab_name ELSE module_name

\* the start-page rule of the module loop
module_name_for(module_name, filename, lab_name, start_page) ==
    IF module_name = <<>> /\ filename = start_page /\ lab_name # <<>>
    THEN lab_name
    ELSE module_name

\* "for filename in module_files": the modules appended so far
RECURSIVE read_modules(_, _, _, _, _)
read_modules(module_files, pages, lab_name, start_page, modules) ==
    IF module_files = <<>> THEN [raised |-> FALSE, modules |-> modules]
    ELSE LET filename == Head(module_files)
             r == read_module_content(pages, filename)
         IN  IF r.raised THEN [raised |-> TRUE, modules |-> <<>>]
             ELSE IF r.module_content # EmptyContent
             THEN read_modules(Tail(module_files), pages, lab_name, start_page,
                      Append(modules,
                             [module_name |-> module_name_for(r.module_name, filename,
                                                              lab_name, start_page),
                              filename |-> filename,
                              module_content |-> r.module_content]))
             ELSE read_modules(Tail(module_files), pages, lab_name, start_page, modules)

\* the try block of fetch_showroom_repository: the Showroom built from the
\* working copy, or None when extract_lab_info_from_site_yaml,
\* parse_navigation_file or read_module_content raises
NoneResult ==
    [isNone |-> TRUE, lab_name |-> <<>>, git_url |-> <<>>, git_ref |-> "",
     modules |-> <<>>]

extract_showroom(repo, url, ref) ==
    LET info == extract_lab_info_from_site_yaml(repo.site)
        nav == parse_navigation_file(repo.nav)
        mods == read_modules(nav.files, repo.pages, info.lab_name, info.start_page, <<>>)
    IN  IF info.raised THEN NoneResult
        ELSE IF nav.raised THEN NoneResult
        ELSE IF mods.raised THEN NoneResult
        ELSE [isNone |-> FALSE, lab_name |-> info.lab_name, git_url |-> url,
              git_ref |-> ref, modules |-> mods.modules]

LocalSentinel == "(local)"

\* a local-directory mode that checks out git_ref and labels the Document
\* with the arguments it was given
fetch_showroom_local_as_remote(fs, localDir, gitUrl, gitRef, noCache) ==
    LET repoPath == resolve(localDir)
    IN  IF ~FsExists(fs, repoPath) \/ ~FsHasDotGit(fs, repoPath)
        THEN [result |-> NoneResult, fs |-> fs, gitOps |-> <<>>, extracted |-> FALSE]
        ELSE [result |-> extract_showroom(fs[repoPath[1]].repo, localDir, gitRef),
              fs |-> fs, gitOps |-> <<"checkout">>, extracted |-> TRUE]

\* fetch_showroom_repository(git_url, git_ref, no_cache=..., local_dir=...)
\* with a local_dir: the value returned, the filesystem it leaves, the git
\* and cache operations it issued and whether the extraction was entered
fetch_showroom_repository(fs, localDir, gitUrl, gitRef, noCache) ==
    LET repoPath == resolve(localDir)
    IN  IF ~FsExists(fs, repoPath) \/ ~FsHasDotGit(fs, repoPath)
        THEN [result |-> NoneResult, fs |-> fs, gitOps |-> <<>>, extracted |-> FALSE]
        ELSE LET doc == extract_showroom(fs[repoPath[1]].repo, repoPath, LocalSentinel)
                 \* finally: the clean-up meant for the no-cache temporary clone
                 after == IF noCache /\ startswith(ParentName(repoPath), TmpPrefix)
                          THEN rmtree_parent(fs, repoPath)
                          ELSE fs
             IN  [result |-> doc, fs |-> after, gitOps |-> <<>>, extracted |-> TRUE]

\* local_dir arguments: a repository directory, the same through a ".."
\* detour, a parent directory, a name that does not exist
LocalDirArgs ==
    {<<p, RepoName>> : p \in ParentNames}
    \cup {<<x[1], DotDot, x[2], RepoName>> :
               x \in {y \in ParentNames \X ParentNames : y[1] # y[2]}}
    \cup {<<p>> : p \in ParentNames}
    \cup {<<p, NoName>> : p \in ParentNames}

GitUrlArgs == {<<>>, <<"u">>}

\* a working copy with a complete manifest, a navigation and its pages
GoodRepo ==
    [exists |-> TRUE, git |-> TRUE, site |-> Manifest(LabTitle, FileA),
     nav |-> GoodNav, pages |-> GoodPages]

\* the directory whose name starts with "tmp" holds any of the samples, the
\* other one is absent, empty or holds a good working copy
LocInit ==
    /\ locFs \in {fs \in [ParentNames ->
                              {AbsentParent} \cup [exists : {TRUE},
                                                   repo : SampleRepoDirs \cup {NoRepoDir}]] :
                      fs[WorkName] \in {AbsentParent,
                                        [exists |-> TRUE, repo |-> NoRepoDir],
                                        [exists |-> TRUE, repo |-> GoodRepo]}}
    /\ locLast = <<>>

FetchLocalDir(localDir, gitUrl, gitRef, noCache) ==
    LET r == fetch_showroom_repository(locFs, localDir, gitUrl, gitRef, noCache)
    IN  /\ locFs' = r.fs
        /\ locLast' = [local_dir |-> localDir, git_url |-> gitUrl, git_ref |-> gitRef,
                       no_cache |-> noCache, before |-> locFs, result |-> r.result,
                       gitOps |-> r.gitOps, extracted |-> r.extracted]
        /\ UNCHANGED notLoc

LocNext ==
    \E localDir \in LocalDirArgs, gitUrl \in GitUrlArgs, gitRef \in Branches,
       noCache \in BOOLEAN : FetchLocalDir(localDir, gitUrl, gitRef, noCache)

InitLocal == LocInit /\ AcqIdle /\ KeyIdle /\ IterIdle /\ RestIdle

SpecLocal == InitLocal /\ [][LocNext]_vars

\* default-site.yml names a title and a start page
ManifestComplete(site) == site.exists /\ site.title # <<>> /\ site.start_page # <<>>

\* the files the navigation names
NavigationFiles(repo) == parse_navigation_file(repo.nav).files

\* the working copy has a complete manifest and a navigation file, and no
\* page the navigation names holds undecodable bytes
Extractable(repo) ==
    /\ ManifestComplete(repo.site) /\ repo.nav.exists
    /\ \A f \in Range(NavigationFiles(repo)) :
           PageOf(repo.pages, f).state # "undecodable"

\* the local directory named by the last call was a git working copy
LocalDirValid ==
    /\ FsExists(locLast.before, resolve(locLast.local_dir))
    /\ FsHasDotGit(locLast.before, resolve(locLast.local_dir))

\* C5: with local_dir supplied, a directory that exists and holds a .git
\* entry takes the run to extraction, and a resulting Document has git_url
\* equal to the resolved local path and git_ref "(local)" whatever git_ref
\* was passed; any other directory gives None; no clone, fetch, checkout or
\* cache-directory operation is issued on either path, and an empty git_url
\* is accepted.
C5_LocalDirDocument ==
    locLast # <<>> =>
        /\ locLast.gitOps = <<>>
        /\ (LocalDirValid <=> locLast.extracted)
        /\ (~LocalDirValid => locLast.result.isNone)
        /\ (~locLast.result.isNone =>
               /\ locLast.result.git_url = resolve(locLast.local_dir)
               /\ locLast.result.git_ref = LocalSentinel)
        /\ (/\ LocalDirValid
            /\ Extractable(locLast.before[resolve(locLast.local_dir)[1]].repo)) =>
               ~locLast.result.isNone

\* C5 witness: a Document came back for a local_dir reached through "..",
\* with an empty git_url and git_ref "dev" passed
C5_Witness ==
    /\ locLast # <<>> /\ ~locLast.result.isNone
    /\ locLast.git_url = <<>> /\ locLast.git_ref = "dev"
    /\ locLast.local_dir # resolve(locLast.local_dir)
    /\ Len(locLast.result.modules) = 2

\* C6: in local-directory mode the call leaves the local directory, its
\* parent directory and all their contents unchanged, for every no_cache
\* value and every directory name, whether it returns a Document or None.
C6_LocalDirUntouched ==
    locLast # <<>> => locFs = locLast.before

----------------------------------------------------------------------------
(* process_content_with_structured_output, processing_mode = "iterative" *)

\* number of fields a schema declares
MaxFields == 3

FieldNames == {"content_type", "overview", "topics"}

\* sequences of distinct field names, up to n long: model_class.model_fields
RECURSIVE SchemasUpTo(_)
SchemasUpTo(n) ==
    IF n = 0 THEN {<<>>}
    ELSE LET shorter == SchemasUpTo(n - 1)
         IN  shorter \cup
             {Append(q, f) : q \in {x \in shorter : Len(x) = n - 1}, f \in FieldNames}

FieldsOf(q) == {q[i] : i \in 1..Len(q)}

DistinctFields(q) == Cardinality(FieldsOf(q)) = Len(q)

\* fields_to_process: the declared fields whose avoid_processing attribute
\* is not set, in declaration order
fields_to_process(schema, avoid) == SelectSeq(schema, LAMBDA f : f \notin avoid)

NoTriple == <<>>

\* return None, False, {"error": error_msg} of the loop
SubcallFailure(f) ==
    [isNone |-> TRUE, success |-> FALSE, error |-> <<"field", f>>,
     fields |-> {}, merged |-> FALSE]

\* the except branch: (None, False, {success: False, error, processing_duration})
ExceptionFailure(what) ==
    [isNone |-> TRUE, success |-> FALSE, error |-> <<"exception", what>>,
     fields |-> {}, merged |-> FALSE]

\* a loop body that skips a failed field and carries on
after_subcall_skip_failed(subs, f, outcome) ==
    [pc |-> "loop", subs |-> IF outcome = "ok" THEN Append(subs, f) ELSE subs,
     out |-> NoTriple]

\* the loop body after the awaited sub-invocation of field f returned
AfterSubcall(subs, f, outcome) ==
    IF outcome # "ok"
    THEN [pc |-> "done", subs |-> subs, out |-> SubcallFailure(f)]
    ELSE [pc |-> "loop", subs |-> Append(subs, f), out |-> NoTriple]

\* after the loop: fields_dict from the submodels, processing_metadata,
\* content_type default, then model_class(**fields_dict)
MergeSubmodels(in, subs, initOk) ==
    IF ~initOk
    THEN ExceptionFailure("initialize_llm")
    ELSE LET fromSubs == FieldsOf(subs) \cup {"processing_metadata"}
             dict == IF /\ "content_type" \in FieldsOf(in.schema)
                        /\ "content_type" \notin fromSubs
                        /\ in.ctDefault
                     THEN fromSubs \cup {"content_type"}
                     ELSE fromSubs
         IN  IF in.required \subseteq dict
             THEN [isNone |-> FALSE, success |-> TRUE, error |-> <<>>,
                   fields |-> dict, merged |-> TRUE]
             ELSE ExceptionFailure("validation")

IterInit ==
    /\ iterIn \in {in \in [schema : SchemasUpTo(MaxFields), avoid : SUBSET FieldNames,
                          required : SUBSET FieldNames, ctDefault : BOOLEAN] :
                     /\ DistinctFields(in.schema)
                     /\ in.avoid \subseteq FieldsOf(in.schema)
                     /\ in.required \subseteq FieldsOf(in.schema)
                     /\ (in.ctDefault => "content_type" \in FieldsOf(in.schema))}
    /\ iterPc = "loop"
    /\ iterIssued = <<>>
    /\ iterSubs = <<>>
    /\ iterOut = NoTriple

\* one iteration of "for field_name, field_info in fields_to_process": the
\* single-field sub-invocation is awaited before the loop goes on
IterSubcall(outcome) ==
    LET todo == fields_to_process(iterIn.schema, iterIn.avoid)
    IN  /\ iterPc = "loop"
        /\ Len(iterIssued) < Len(todo)
        /\ LET f == todo[Len(iterIssued) + 1]
               r == AfterSubcall(iterSubs, f, outcome)
           IN  /\ iterIssued' = Append(iterIssued, f)
               /\ iterPc' = r.pc
               /\ iterSubs' = r.subs
               /\ iterOut' = r.out
        /\ UNCHANGED iterIn
        /\ UNCHANGED notIter

\* the code after the loop, up to the return
IterMerge(initOk) ==
    /\ iterPc = "loop"
    /\ Len(iterIssued) = Len(fields_to_process(iterIn.schema, iterIn.avoid))
    /\ iterOut' = MergeSubmodels(iterIn, iterSubs, initOk)
    /\ iterPc' = "done"
    /\ UNCHANGED <<iterIn, iterIssued, iterSubs>>
    /\ UNCHANGED notIter

IterNext ==
    \/ \E outcome \in {"ok", "fail"} : IterSubcall(outcome)
    \/ \E initOk \in BOOLEAN : IterMerge(initOk)

InitIter == IterInit /\ AcqIdle /\ KeyIdle /\ LocIdle /\ RestIdle

SpecIter == InitIter /\ [][IterNext]_vars

\* C8: the iterative mode issues one single-field sub-invocation per
\* processed schema field, one after the other in declaration order; a
\* failed sub-invocation ends the call at once with (None, False, error),
\* no later field is issued and nothing is merged; a result is returned only
\* when every sub-invocation succeeded, and it has a value for every
\* processed field.
C8_IterativeAllOrFail ==
    LET todo == fields_to_process(iterIn.schema, iterIn.avoid)
    IN  /\ Len(iterIssued) <= Len(todo)
        /\ iterIssued = SubSeq(todo, 1, Len(iterIssued))
        /\ iterSubs = SubSeq(todo, 1, Len(iterSubs))
        /\ (iterPc = "loop" => iterSubs = iterIssued /\ iterOut = NoTriple)
        /\ (iterPc = "done" /\ iterSubs # iterIssued =>
               /\ Len(iterIssued) = Len(iterSubs) + 1
               /\ iterOut = SubcallFailure(iterIssued[Len(iterIssued)]))
        /\ (iterPc = "done" =>
               /\ iterOut # NoTriple
               /\ (iterOut.isNone <=> ~iterOut.success)
               /\ (iterOut.isNone => iterOut.error # <<>> /\ ~iterOut.merged)
               /\ (~iterOut.isNone =>
                      /\ iterSubs = todo /\ iterIssued = todo
                      /\ FieldsOf(todo) \subseteq iterOut.fields))

\* C8 witness: the second sub-invocation failed after the first succeeded,
\* and the call ended with a field still unissued
C8_Witness ==
    /\ iterPc = "done" /\ Len(iterIssued) = 2 /\ Len(iterSubs) = 1
    /\ iterOut # NoTriple /\ iterOut.isNone
    /\ Len(fields_to_process(iterIn.schema, iterIn.avoid)) > 2

----------------------------------------------------------------------------
(* fetch_showroom_repository: extraction of the Showroom from a working copy *)

\* manifests: none, without title, without start page, and complete ones
\* whose start page is a.adoc, modules::a.adoc or b.adoc
SampleManifests ==
    {NoManifest, Manifest(<<>>, FileA), Manifest(LabTitle, <<>>),
     Manifest(LabTitle, FileA), Manifest(LabTitle, ModulesPrefix \o FileA),
     Manifest(LabTitle, FileB)}

\* navigation files: none, an empty one, a.adoc then b.adoc, b.adoc then
\* a.adoc with a repeated and a nested entry
SampleNavs ==
    {NoNav, NavOf(EmptyContent), GoodNav,
     NavOf(<<NavLine(<<>>, <<"*">>, XrefSyntax, FileB),
             NavLine(<<>>, <<"*", "*">>, XrefSyntax, FileA),
             NavLine(<<>>, <<"*">>, XrefSyntax, FileB),
             NavLine(<<>>, <<"*">>, XrefSyntax, FileA)>>)}

\* page files: absent, unreadable, undecodable, empty, text without and
\* with a heading
SamplePages ==
    {NoPage, UnreadablePage, UndecodablePage, TextPage(EmptyContent),
     TextPage(<<BodyLine>>), TextPage(<<HeadingLine, BodyLine>>)}

ExInit ==
    /\ exIn \in [exists : {TRUE}, git : {TRUE}, site : SampleManifests,
                 nav : SampleNavs, pages : [NavFiles -> SamplePages]]
    /\ exOut = <<>>

\* the try block of fetch_showroom_repository(git_url, git_ref) on the
\* working copy
Extract(url, ref) ==
    /\ exOut = <<>>
    /\ exOut' = extract_showroom(exIn, url, ref)
    /\ UNCHANGED exIn
    /\ UNCHANGED notEx

ExNext == \E ref \in Branches : Extract(<<"u">>, ref)

InitExtract == ExInit /\ AcqIdle /\ KeyIdle /\ LocIdle /\ IterIdle
               /\ NavIdle /\ TitIdle /\ GraphIdle /\ LaterIdle

SpecExtract == InitExtract /\ [][ExNext]_vars

\* the heading a page file carries (<<>>: none)
OwnTitle(repo, f) == extract_module_name_from_content(PageOf(repo.pages, f).lines)

\* C15: a module whose page has a heading keeps that heading as its name; a
\* module without a heading takes the manifest title when its filename
\* equals the manifest's start_page and the manifest title is not empty, and
\* the empty name otherwise.
C15_StartPageInheritsTitle ==
    (exOut # <<>> /\ ~exOut.isNone) =>
        \A i \in 1..Len(exOut.modules) :
            LET m == exOut.modules[i]
                own == OwnTitle(exIn, m.filename)
                inherits == /\ own = <<>>
                            /\ m.filename = exIn.site.start_page
                            /\ exIn.site.title # <<>>
            IN  /\ (own # <<>> => m.module_name = own)
                /\ (inherits => m.module_name = exIn.site.title)
                /\ (own = <<>> /\ ~inherits => m.module_name = <<>>)

\* C15 witness: of two heading-less modules the one named by start_page
\* carries the manifest title and the other the empty name
C15_Witness ==
    /\ exOut # <<>> /\ ~exOut.isNone /\ Len(exOut.modules) = 2
    /\ exIn.site.start_page = FileB
    /\ OwnTitle(exIn, FileA) = <<>> /\ OwnTitle(exIn, FileB) = <<>>
    /\ \E i, j \in 1..2 :
           /\ exOut.modules[i].filename = FileB
           /\ exOut.modules[i].module_name = LabTitle
           /\ exOut.modules[j].filename = FileA
           /\ exOut.modules[j].module_name = <<>>

DoubleColon == <<":", ":">>

\* the start page a manifest names: the portion of start_page after "::"
\* when it has the form modules::filename.adoc, start_page itself otherwise
StartPageFile(start_page) ==
    LET ps == {p \in 1..Len(start_page) : HasAt(start_page, p, DoubleColon)}
    IN  IF ps = {} THEN start_page
        ELSE LET p == CHOOSE x \in ps : \A y \in ps : x <= y
             IN  SubSeq(start_page, p + Len(DoubleColon), Len(start_page))

\* C16: with start_page of the form modules::filename.adoc the portion after
\* "::" is the start page: a heading-less module whose filename is that
\* portion takes the manifest title, as it does when start_page is the bare
\* filename.
C16_ModulesPrefixIsStripped ==
    (exOut # <<>> /\ ~exOut.isNone) =>
        \A i \in 1..Len(exOut.modules) :
            LET m == exOut.modules[i]
            IN  (/\ OwnTitle(exIn, m.filename) = <<>>
                 /\ m.filename = StartPageFile(exIn.site.start_page)) =>
                    m.module_name = exIn.site.title

\* C17: the extraction returns a Document whatever the manifest and the
\* navigation file are: with empty lab name when the manifest is missing or
\* lacks site.title or site.start_page, and with an empty module list when
\* the navigation file is missing.
C17_MissingMetadataIsRecoverable ==
    (/\ exOut # <<>>
     /\ \A f \in Range(NavigationFiles(exIn)) :
            PageOf(exIn.pages, f).state # "undecodable") =>
        /\ ~exOut.isNone
        /\ (~ManifestComplete(exIn.site) /\ exIn.site.title = <<>> =>
               exOut.lab_name = <<>>)
        /\ (~exIn.nav.exists => exOut.modules = <<>>)

\* the files the navigation names whose page is present, readable and not
\* empty, in navigation order
ReadableFiles(repo) ==
    SelectSeq(NavigationFiles(repo),
              LAMBDA f : /\ PageOf(repo.pages, f).state = "text"
                         /\ PageOf(repo.pages, f).lines # EmptyContent)

RECURSIVE FilenamesOf(_)
FilenamesOf(modules) ==
    IF modules = <<>> THEN <<>>
    ELSE <<Head(modules).filename>> \o FilenamesOf(Tail(modules))

\* C18: with a complete manifest and a navigation file, a Document is
\* returned whatever the state of the page files: a page that is absent or
\* cannot be read (OSError, undecodable bytes) is skipped, the modules are
\* those of the other navigation entries in navigation order, and a
\* navigation without entries gives an empty module list.
C18_UnreadablePageIsSkipped ==
    (exOut # <<>> /\ ManifestComplete(exIn.site) /\ exIn.nav.exists) =>
        /\ ~exOut.isNone
        /\ FilenamesOf(exOut.modules) = ReadableFiles(exIn)
        /\ (NavigationFiles(exIn) = <<>> => exOut.modules = <<>>)

\* the files the navigation names whose page is present and readable,
\* whatever its text, in navigation order
ReadablePages(repo) ==
    SelectSeq(NavigationFiles(repo),
              LAMBDA f : PageOf(repo.pages, f).state = "text")

\* C30: in the Document returned, every deduplicated navigation filename
\* whose page file exists and is readable has exactly one module, with that
\* filename and with the file's raw text as content, an empty file
\* included; there are as many modules as readable navigation pages.
C30_ModulePerReadablePage ==
    (exOut # <<>> /\ ~exOut.isNone) =>
        /\ FilenamesOf(exOut.modules) = ReadablePages(exIn)
        /\ \A i \in DOMAIN exOut.modules :
               exOut.modules[i].module_content =
                   PageOf(exIn.pages, exOut.modules[i].filename).lines

----------------------------------------------------------------------------
(* graph_factory: get_showroom, process_showroom, process_showroom_with_graph *)

\* the fields ShowroomState declares; a keyword that names no field is
\* dropped when the state is built, and reading an attribute that is no
\* field raises AttributeError
ShowroomStateFields ==
    {"git_url", "git_ref", "verbose", "cache_dir", "no_cache", "command",
     "llm_provider", "model", "temperature", "showroom", "messages", "errors",
     "final_output"}

\* the attributes get_showroom reads to build the call of
\* fetch_showroom_repository
FetchArguments ==
    {"git_url", "git_ref", "verbose", "cache_dir", "no_cache", "local_dir"}

Commands == {"summary", "review", "description"}
NoCommand == "none"

\* final_output: the keys it holds and their values
EmptyOutput ==
    [keys |-> {}, success |-> FALSE, error |-> "", lab_name |-> <<>>,
     git_url |-> <<>>, git_ref |-> "", module_count |-> 0,
     showroom_data |-> NoneResult, command |-> ""]

FailureOutput(error_msg) ==
    [EmptyOutput EXCEPT !.keys = {"success", "error"}, !.error = error_msg]

FetchedOutput(showroom) ==
    [keys |-> {"success", "lab_name", "git_url", "git_ref", "module_count",
               "showroom_data"},
     success |-> TRUE, error |-> "", lab_name |-> showroom.lab_name,
     git_url |-> showroom.git_url, git_ref |-> showroom.git_ref,
     module_count |-> Len(showroom.modules), showroom_data |-> showroom,
     command |-> ""]

ProcessedOutput(showroom, command) ==
    [FetchedOutput(showroom) EXCEPT
        !.keys = @ \cup {"structured_output", "command"}, !.command = command]

UnexpectedFetchError == "Unexpected error fetching showroom"
FetchFailedError == "Failed to fetch showroom repository"
NoShowroomError == "No showroom data available to process"
UnexpectedProcessError == "Unexpected error processing showroom"
StructuredOutputError == "Failed to generate structured output"

\* what a node returns: the channels it sets and their values
NodeUpdate(sets, showroom, errors, final_output, fetchCalls, llmRequests, attached) ==
    [sets |-> sets, showroom |-> showroom, errors |-> errors,
     final_output |-> final_output, fetchCalls |-> fetchCalls,
     llmRequests |-> llmRequests, attached |-> attached]

\* a get_showroom whose except branch reports the error without a
\* final_output
get_showroom_error_without_output(in) ==
    IF ~(FetchArguments \subseteq ShowroomStateFields) \/ in.fetch.raised
    THEN NodeUpdate({"errors"}, NoneResult, <<UnexpectedFetchError>>, EmptyOutput,
                    IF FetchArguments \subseteq ShowroomStateFields THEN 1 ELSE 0, 0, "")
    ELSE IF in.fetch.value.isNone
    THEN NodeUpdate({"errors"}, NoneResult, <<FetchFailedError>>, EmptyOutput, 1, 0, "")
    ELSE IF in.command = NoCommand
    THEN NodeUpdate({"showroom", "final_output"}, in.fetch.value, <<>>,
                    FetchedOutput(in.fetch.value), 1, 0, "")
    ELSE NodeUpdate({"showroom"}, in.fetch.value, <<>>, EmptyOutput, 1, 0, "")

\* get_showroom(state): the arguments of fetch_showroom_repository are read
\* from the state inside the try block, then the function is called
get_showroom(in) ==
    IF ~(FetchArguments \subseteq ShowroomStateFields)
    THEN \* AttributeError while the arguments are evaluated: except branch
         NodeUpdate({"errors", "final_output"}, NoneResult, <<UnexpectedFetchError>>,
                    FailureOutput(UnexpectedFetchError), 0, 0, "")
    ELSE IF in.fetch.raised
    THEN NodeUpdate({"errors", "final_output"}, NoneResult, <<UnexpectedFetchError>>,
                    FailureOutput(UnexpectedFetchError), 1, 0, "")
    ELSE IF in.fetch.value.isNone
    THEN NodeUpdate({"errors"}, NoneResult, <<FetchFailedError>>, EmptyOutput, 1, 0, "")
    ELSE IF in.command = NoCommand
    THEN NodeUpdate({"showroom", "final_output"}, in.fetch.value, <<>>,
                    FetchedOutput(in.fetch.value), 1, 0, "")
    ELSE NodeUpdate({"showroom"}, in.fetch.value, <<>>, EmptyOutput, 1, 0, "")

\* the artifact slots of a Showroom; process_showroom assigns the slot of
\* the command
ArtifactSlots == {"summary_output", "review_output", "description_output"}

slot_of(command) ==
    CASE command = "summary" -> "summary_output"
      [] command = "review" -> "review_output"
      [] OTHER -> "description_output"

\* an attachment that also clears the slots of the other commands
attach_and_reset(slots, command, result) ==
    [x \in ArtifactSlots |-> IF x = slot_of(command) THEN result ELSE "None"]

\* showroom.<command>_output = result
attach(slots, command, result) == [slots EXCEPT ![slot_of(command)] = result]

\* process_showroom(state); in.llm is what building the prompt and
\* process_content_with_structured_output do: "ok", "fail" (no result) or
\* "raises"; the update names the command whose slot was assigned
process_showroom(showroom, in) ==
    IF showroom.isNone
    THEN NodeUpdate({"errors"}, showroom, <<NoShowroomError>>, EmptyOutput, 0, 0, "")
    ELSE LET command == IF in.command = NoCommand THEN "summary" ELSE in.command
         IN
         CASE in.llm = "raises" ->
                NodeUpdate({"errors", "final_output"}, showroom,
                           <<UnexpectedProcessError>>,
                           FailureOutput(UnexpectedProcessError), 0, 1, "")
           [] in.llm = "fail" ->
                NodeUpdate({"errors", "final_output"}, showroom,
                           <<StructuredOutputError>>,
                           FailureOutput(StructuredOutputError), 0, 1, "")
           [] OTHER ->
                NodeUpdate({"final_output"}, showroom, <<>>,
                           ProcessedOutput(showroom, command), 0, 1, command)

\* what fetch_showroom_repository does for the arguments of a call: it
\* raises, returns None, or returns the Showroom of a working copy (two
\* modules, none, local-directory mode)
FetchOutcomes ==
    {[raised |-> TRUE, value |-> NoneResult]}
    \cup [raised : {FALSE},
          value : {NoneResult,
                   extract_showroom(GoodRepo, <<"u">>, "main"),
                   extract_showroom([GoodRepo EXCEPT !.nav = NavOf(EmptyContent)],
                                    <<"u">>, "dev"),
                   extract_showroom(GoodRepo, <<TmpWorkName, RepoName>>, LocalSentinel)}]

\* process_showroom_with_graph builds the initial state: no showroom, no
\* errors, final_output = {}
GraphInit ==
    /\ gIn \in [command : Commands \cup {NoCommand}, fetch : FetchOutcomes,
                llm : {"ok", "fail", "raises"},
                local_dir : {<<>>, <<TmpWorkName, RepoName>>}]
    /\ gOut = [pc |-> "get_showroom", showroom |-> NoneResult, errors |-> <<>>,
               final_output |-> EmptyOutput, ran |-> <<>>, fetchCalls |-> 0,
               llmRequests |-> 0, attached |-> "", result |-> EmptyOutput]

\* the state after a node: the channels the node returned are replaced
AfterNode(node, upd, pc) ==
    [gOut EXCEPT
        !.pc = pc,
        !.showroom = IF "showroom" \in upd.sets THEN upd.showroom ELSE @,
        !.errors = IF "errors" \in upd.sets THEN upd.errors ELSE @,
        !.final_output = IF "final_output" \in upd.sets THEN upd.final_output ELSE @,
        !.ran = Append(@, node),
        !.fetchCalls = @ + upd.fetchCalls,
        !.llmRequests = @ + upd.llmRequests,
        !.attached = IF upd.attached # "" THEN upd.attached ELSE @]

\* the entry node; graph_factory(include_processing = command is not None)
\* adds the edge to process_showroom or to END
GraphGetShowroom ==
    /\ gOut # <<>> /\ gOut.pc = "get_showroom"
    /\ gOut' = AfterNode("get_showroom", get_showroom(gIn),
                         IF gIn.command # NoCommand THEN "process_showroom" ELSE "end")
    /\ UNCHANGED gIn
    /\ UNCHANGED notGraph

GraphProcessShowroom ==
    /\ gOut # <<>> /\ gOut.pc = "process_showroom"
    /\ gOut' = AfterNode("process_showroom", process_showroom(gOut.showroom, gIn), "end")
    /\ UNCHANGED gIn
    /\ UNCHANGED notGraph

\* return result.get("final_output", {})
GraphReturn ==
    /\ gOut # <<>> /\ gOut.pc = "end"
    /\ gOut' = [gOut EXCEPT !.pc = "done", !.result = gOut.final_output]
    /\ UNCHANGED gIn
    /\ UNCHANGED notGraph

GraphNext ==
    \/ GraphGetShowroom
    \/ GraphProcessShowroom
    \/ GraphReturn

InitGraph == GraphInit /\ AcqIdle /\ KeyIdle /\ LocIdle /\ IterIdle
             /\ NavIdle /\ TitIdle /\ ExIdle /\ LaterIdle

SpecGraph == InitGraph /\ [][GraphNext]_vars

\* the call has returned
GraphDone == gOut # <<>> /\ gOut.pc = "done"

\* fetch_showroom_repository gives a Showroom for the arguments of the call
FetchSucceeds == ~gIn.fetch.raised /\ ~gIn.fetch.value.isNone

\* C19: with no command and a fetch that succeeds, the graph runs
\* get_showroom only, issues no LLM request, and returns a final_output with
\* success = True, the lab_name, git_url and git_ref of the Document,
\* module_count equal to the number of its modules and the Document under
\* showroom_data.
C19_FetchOnlyReturnsDocument ==
    (GraphDone /\ gIn.command = NoCommand /\ FetchSucceeds) =>
        /\ gOut.ran = <<"get_showroom">>
        /\ gOut.llmRequests = 0
        /\ {"success", "lab_name", "git_url", "git_ref", "module_count",
            "showroom_data"} \subseteq gOut.result.keys
        /\ gOut.result.success
        /\ gOut.result.lab_name = gIn.fetch.value.lab_name
        /\ gOut.result.git_url = gIn.fetch.value.git_url
        /\ gOut.result.git_ref = gIn.fetch.value.git_ref
        /\ gOut.result.module_count = Len(gIn.fetch.value.modules)
        /\ gOut.result.showroom_data = gIn.fetch.value

\* the run acquired no Showroom: fetch_showroom_repository returned None, or
\* the call of it raised
AcquisitionFailed == gOut.showroom.isNone

----------------------------------------------------------------------------
(* process_content_with_structured_output: one structured invocation *)

\* provider names as characters (the code lower-cases them)
ProviderLocal == <<"l", "o", "c", "a", "l">>
ProviderOpenai == <<"o", "p", "e", "n", "a", "i">>
ProviderGemini == <<"g", "e", "m", "i", "n", "i">>
ProviderGeminiMixed == <<"G", "e", "m", "I", "n", "i">>
ProviderBogus == <<"b", "o", "g", "u", "s">>

\* defaults written in the code
DefaultOpenaiModel == "gpt-4o-2024-08-06"
DefaultGeminiModel == "gemini-2.0-flash-exp"
GeminiBaseUrl == "https://generativelanguage.googleapis.com/v1beta/openai/"
DefaultTemperature == "0.1"
NoBaseUrl == "default endpoint"

\* the process environment: a function from the variables that are set to
\* their values; os.getenv(name) is None for a name outside its domain
EnvValue(name, provider, temperature) ==
    CASE name = "LLM_PROVIDER" -> provider
      [] name = "LLM_TEMPERATURE" -> temperature
      [] OTHER -> name

\* os.getenv(name, default)
getenv(env, name, default) == IF name \in DOMAIN env THEN env[name] ELSE default

\* os.getenv(name) used where only its truth value matters: "" when unset
getenv_or_empty(env, name) == getenv(env, name, "")

\* float(text): the texts that parse
IsFloat(text) == text \in {"0.1", "0.2", "0.7"}

\* error messages
MissingLibraryError == "OpenAI package is not installed"
LocalConfigError == "LOCAL_OPENAI_API_KEY, LOCAL_OPENAI_BASE_URL, and LOCAL_OPENAI_MODEL must be set"
OpenaiKeyError == "OPENAI_API_KEY must be set for openai provider"
GeminiKeyError == "GEMINI_API_KEY must be set for gemini provider"
UnknownProviderError == "Unknown LLM_PROVIDER"
FloatError == "could not convert string to float"
ProviderError == "provider or transport error"
ParseFailedError == "Failed to parse response to structured format"

NoClient == [api_key |-> "", base_url |-> ""]

Raised(error) == [raised |-> TRUE, error |-> error, client |-> NoClient, model_name |-> ""]

Initialized(api_key, base_url, model_name) ==
    [raised |-> FALSE, error |-> "",
     client |-> [api_key |-> api_key, base_url |-> base_url], model_name |-> model_name]

\* provider = llm_provider or os.getenv("LLM_PROVIDER", "gemini"), lower-cased;
\* an argument that is None or empty is <<>>
provider_of(llm_provider, env) ==
    lower(IF llm_provider # <<>> THEN llm_provider
          ELSE getenv(env, "LLM_PROVIDER", ProviderGemini))

\* x or y, on strings
Or(x, y) == IF x # "" THEN x ELSE y

\* an initialize_llm that builds the client without looking at the
\* credentials
initialize_llm_without_checks(available, llm_provider, model, env) ==
    LET provider == provider_of(llm_provider, env)
    IN  CASE provider = ProviderLocal ->
               Initialized(getenv_or_empty(env, "LOCAL_OPENAI_API_KEY"),
                           getenv_or_empty(env, "LOCAL_OPENAI_BASE_URL"),
                           Or(model, getenv_or_empty(env, "LOCAL_OPENAI_MODEL")))
          [] provider = ProviderOpenai ->
               Initialized(getenv_or_empty(env, "OPENAI_API_KEY"), NoBaseUrl,
                           Or(model, getenv(env, "OPENAI_MODEL", DefaultOpenaiModel)))
          [] OTHER ->
               Initialized(getenv_or_empty(env, "GEMINI_API_KEY"), GeminiBaseUrl,
                           Or(model, getenv(env, "GEMINI_MODEL", DefaultGeminiModel)))

\* initialize_llm(llm_provider, model): the client and the model name, or
\* the exception raised
initialize_llm(available, llm_provider, model, env) ==
    IF ~available THEN Raised(MissingLibraryError)
    ELSE
    LET provider == provider_of(llm_provider, env)
    IN  CASE provider = ProviderLocal ->
               LET api_key == getenv_or_empty(env, "LOCAL_OPENAI_API_KEY")
                   base_url == getenv_or_empty(env, "LOCAL_OPENAI_BASE_URL")
                   model_name == Or(model, getenv_or_empty(env, "LOCAL_OPENAI_MODEL"))
               IN  IF api_key = "" \/ base_url = "" \/ model_name = ""
                   THEN Raised(LocalConfigError)
                   ELSE Initialized(api_key, base_url, model_name)
          [] provider = ProviderOpenai ->
               LET api_key == getenv_or_empty(env, "OPENAI_API_KEY")
                   model_name == Or(model, getenv(env, "OPENAI_MODEL", DefaultOpenaiModel))
               IN  IF api_key = "" THEN Raised(OpenaiKeyError)
                   ELSE Initialized(api_key, NoBaseUrl, model_name)
          [] provider = ProviderGemini ->
               LET api_key == getenv_or_empty(env, "GEMINI_API_KEY")
                   model_name == Or(model, getenv(env, "GEMINI_MODEL", DefaultGeminiModel))
               IN  IF api_key = "" THEN Raised(GeminiKeyError)
                   ELSE Initialized(api_key, GeminiBaseUrl, model_name)
          [] OTHER -> Raised(UnknownProviderError)

\* one call of client.beta.chat.completions.parse
NoRequest == <<>>
Request(client, model_name, temperature) ==
    <<[api_key |-> client.api_key, base_url |-> client.base_url,
       model |-> model_name, temperature |-> temperature]>>

\* the returned triple, with the requests issued on the way
Triple(result, success, metadata, requests) ==
    [result |-> result, success |-> success, metadata |-> metadata,
     requests |-> requests]

\* the metadata dictionary: its keys and their values
Metadata(keys, success, error, provider, model_name) ==
    [keys |-> keys, success |-> success, error |-> error,
     provider |-> provider, model |-> model_name]

NoArtifact == "None"
Artifact == "structured output"
PartialArtifact == "partially populated output"

\* the library is missing: returned before the try block
missing_library_return ==
    Triple(NoArtifact, FALSE,
           Metadata({"success", "error", "processing_duration"}, FALSE,
                    MissingLibraryError, <<>>, ""),
           NoRequest)

\* the except branch
except_return(error, requests) ==
    Triple(NoArtifact, FALSE,
           Metadata({"success", "error", "processing_duration"}, FALSE, error, <<>>, ""),
           requests)

\* message.parsed is set
parsed_return(provider, model_name, requests) ==
    Triple(Artifact, TRUE,
           Metadata({"provider", "model", "timestamp", "success", "processing_duration"},
                    TRUE, "", provider, model_name),
           requests)

\* a branch for an unparsed message that hands out what was parsed so far
unparsed_return_partial(provider, model_name, requests) ==
    Triple(PartialArtifact, FALSE,
           Metadata({"provider", "model", "timestamp", "success", "error",
                     "processing_duration"}, FALSE, ParseFailedError, provider, model_name),
           requests)

\* message.parsed is empty
unparsed_return(provider, model_name, requests) ==
    Triple(NoArtifact, FALSE,
           Metadata({"provider", "model", "timestamp", "success", "error",
                     "processing_duration"}, FALSE, ParseFailedError, provider, model_name),
           requests)

\* process_content_with_structured_output(content, model_class,
\* system_prompt, llm_provider, model, temperature); in.response is what the
\* provider does with the request: "parsed", "unparsed" or "raises"
process_content_with_structured_output(in) ==
    IF ~in.available THEN missing_library_return
    ELSE
    LET init == initialize_llm(in.available, in.llm_provider, in.model, in.env)
        provider == provider_of(in.llm_provider, in.env)
        text == IF in.temperature # "None" THEN in.temperature
                ELSE getenv(in.env, "LLM_TEMPERATURE", DefaultTemperature)
    IN  IF init.raised THEN except_return(init.error, NoRequest)
        ELSE IF ~IsFloat(text) THEN except_return(FloatError, NoRequest)
        ELSE LET requests == Request(init.client, init.model_name, text)
             IN  CASE in.response = "raises" -> except_return(ProviderError, requests)
                   [] in.response = "parsed" ->
                        parsed_return(provider, init.model_name, requests)
                   [] OTHER -> unparsed_return(provider, init.model_name, requests)

\* environments: which credentials are set, whether the optional model
\* names are set, the provider and the temperature
CredentialSets ==
    {{}, {"OPENAI_API_KEY"}, {"GEMINI_API_KEY"},
     {"LOCAL_OPENAI_API_KEY", "LOCAL_OPENAI_BASE_URL", "LOCAL_OPENAI_MODEL"},
     {"LOCAL_OPENAI_API_KEY", "LOCAL_OPENAI_BASE_URL"},
     {"LOCAL_OPENAI_API_KEY", "LOCAL_OPENAI_MODEL"},
     {"LOCAL_OPENAI_BASE_URL", "LOCAL_OPENAI_MODEL"},
     {"OPENAI_API_KEY", "GEMINI_API_KEY", "LOCAL_OPENAI_API_KEY",
      "LOCAL_OPENAI_BASE_URL", "LOCAL_OPENAI_MODEL"}}

SampleEnvs ==
    {[name \in creds \cup models \cup prov \cup temp |->
         EnvValue(name, provider, temperature)] :
       creds \in CredentialSets,
       models \in {{}, {"OPENAI_MODEL", "GEMINI_MODEL"}},
       prov \in {{}, {"LLM_PROVIDER"}},
       temp \in {{}, {"LLM_TEMPERATURE"}},
       provider \in {ProviderOpenai, ProviderGeminiMixed, ProviderBogus},
       temperature \in {"0.7", "hot"}}

LlmInit ==
    /\ llmIn \in [available : BOOLEAN,
                  llm_provider : {<<>>, ProviderLocal, ProviderOpenai, ProviderBogus},
                  model : {"", "argument-model"},
                  temperature : {"None", "0.2"},
                  env : SampleEnvs,
                  response : {"parsed", "unparsed", "raises"}]
    /\ llmOut = <<>>

\* one call, from entry to return
ProcessContent ==
    /\ llmOut = <<>>
    /\ llmOut' = process_content_with_structured_output(llmIn)
    /\ UNCHANGED llmIn
    /\ UNCHANGED notLlm

LlmNext == ProcessContent

InitLlm == LlmInit /\ EarlierIdle /\ PrIdle /\ CfgIdle /\ ProcIdle /\ RaceIdle /\ TmpIdle

SpecLlm == InitLlm /\ [][LlmNext]_vars

\* the call has returned
LlmDone == llmOut # <<>>

\* what makes a call fail: no client library, no usable configuration, a
\* provider or transport exception, a response that does not parse
KnownProviders == {ProviderLocal, ProviderOpenai, ProviderGemini}

SelectedProvider(in) ==
    lower(IF in.llm_provider # <<>> THEN in.llm_provider
          ELSE IF "LLM_PROVIDER" \in DOMAIN in.env THEN in.env["LLM_PROVIDER"]
          ELSE ProviderGemini)

ConfigurationMissing(in) ==
    LET p == SelectedProvider(in)
    IN  \/ p \notin KnownProviders
        \/ p = ProviderLocal /\ "LOCAL_OPENAI_API_KEY" \notin DOMAIN in.env
        \/ p = ProviderLocal /\ "LOCAL_OPENAI_BASE_URL" \notin DOMAIN in.env
        \/ p = ProviderLocal /\ in.model = "" /\ "LOCAL_OPENAI_MODEL" \notin DOMAIN in.env
        \/ p = ProviderOpenai /\ "OPENAI_API_KEY" \notin DOMAIN in.env
        \/ p = ProviderGemini /\ "GEMINI_API_KEY" \notin DOMAIN in.env

FailureCause(in) ==
    ~in.available \/ ConfigurationMissing(in) \/ in.response # "parsed"

\* C21: the returned triple has result None exactly when success is False,
\* metadata.success equals success, the result is never a partially
\* populated object, and every failure (library missing, configuration
\* missing, provider or transport exception, unparsed response) returns
\* (None, False, metadata) with an error message and a processing duration.
C21_NoPartialArtifact ==
    LlmDone =>
        /\ (llmOut.result = NoArtifact) <=> ~llmOut.success
        /\ llmOut.result \in {NoArtifact, Artifact}
        /\ "success" \in llmOut.metadata.keys
        /\ llmOut.metadata.success = llmOut.success
        /\ (FailureCause(llmIn) => ~llmOut.success)
        /\ (~llmOut.success =>
               /\ llmOut.result = NoArtifact
               /\ {"error", "processing_duration"} \subseteq llmOut.metadata.keys
               /\ llmOut.metadata.error # "")

\* C21 witness: a request was issued, the response did not parse, and the
\* call returned without a result
C21_Witness ==
    /\ LlmDone /\ llmIn.response = "unparsed" /\ Len(llmOut.requests) = 1
    /\ llmOut.result = NoArtifact /\ llmOut.metadata.error = ParseFailedError

\* the credential the provider named by an explicit argument uses
CredentialOf(provider) ==
    CASE provider = ProviderLocal -> "LOCAL_OPENAI_API_KEY"
      [] provider = ProviderOpenai -> "OPENAI_API_KEY"
      [] OTHER -> "GEMINI_API_KEY"

\* C22: one call issues at most one completion request, also after a
\* failure; with an unknown provider or a missing credential, endpoint or
\* model it fails with no request issued; an explicit provider argument and
\* an explicit model argument win over the environment's values.
C22_AtMostOneRequest ==
    LlmDone =>
        /\ Len(llmOut.requests) <= 1
        /\ (ConfigurationMissing(llmIn) =>
               llmOut.requests = NoRequest /\ ~llmOut.success)
        /\ (llmOut.requests # NoRequest /\ llmIn.llm_provider # <<>> =>
               llmOut.requests[1].api_key = CredentialOf(lower(llmIn.llm_provider)))
        /\ (llmOut.requests # NoRequest /\ llmIn.model # "" =>
               llmOut.requests[1].model = llmIn.model)

\* C22 witness: the provider failed the one request of a call whose
\* provider and model arguments differ from the environment's
C22_Witness ==
    /\ LlmDone /\ llmIn.response = "raises" /\ Len(llmOut.requests) = 1
    /\ ~llmOut.success
    /\ llmIn.llm_provider = ProviderLocal /\ llmIn.model = "argument-model"
    /\ "LLM_PROVIDER" \in DOMAIN llmIn.env
    /\ llmIn.env["LLM_PROVIDER"] = ProviderOpenai
    /\ "OPENAI_MODEL" \in DOMAIN llmIn.env

----------------------------------------------------------------------------
(* Prompt assembly: extract_field_descriptions, build_enhanced_system_prompt *)
(* and the system message process_showroom has sent                         *)

\* number of fields an output schema declares
MaxPromptFields == 2

\* a text is a sequence of pieces; concatenation is \o
Newline == "\n"
BlankLine == "\n\n"

\* field names of the output schemas and of Showroom, and str.upper() on the
\* names and keys used
PromptFieldNames == {"git_url", "summary_output", "headline", "lab_summary"}

upper(name) ==
    CASE name = "git_url" -> "GIT_URL"
      [] name = "summary_output" -> "SUMMARY_OUTPUT"
      [] name = "headline" -> "HEADLINE"
      [] name = "lab_summary" -> "LAB_SUMMARY"
      [] name = "audience" -> "AUDIENCE"
      [] OTHER -> name

\* a field of model_class.model_fields: its name, field_info.description
\* and json_schema_extra["description"] ("" when there is none)
PromptFields ==
    [name : PromptFieldNames, description : {"", "focus A", "focus B"},
     extra : {"", "extra focus"}]

RECURSIVE PromptSchemasUpTo(_)
PromptSchemasUpTo(n) ==
    IF n = 0 THEN {<<>>}
    ELSE LET shorter == PromptSchemasUpTo(n - 1)
         IN  shorter \cup
             {Append(q, f) : q \in {x \in shorter : Len(x) = n - 1}, f \in PromptFields}

DistinctNames(schema) ==
    \A i, j \in 1..Len(schema) : schema[i].name = schema[j].name => i = j

\* the names the two copies of extract_field_descriptions skip
SharedUtilitiesSkipped == {"git_url", "git_ref", "summary_output"}
PromptsSkipped == {"git_url", "git_ref"}

HeaderSuffix == " FIELD BEHAVIORAL INSTRUCTIONS:"
IgnoreDirective ==
    "IGNORE everything except this field's specific focus. Your analytical approach for this field: "
Preamble ==
    "FIELD-SPECIFIC BEHAVIORAL INSTRUCTIONS:\nEach field below requires a COMPLETELY DIFFERENT analytical approach. Do not mix behaviors between fields."
Critical ==
    "CRITICAL: Each field has its own FOCUS, IGNORE, and ACT LIKE instructions. Apply each field's behavioral approach independently. Do not let one field's focus contaminate another field's analysis."

\* a loop that skips no field
is_skipped_never(field_name, skipped) == FALSE

\* if field_name in [...]: continue
is_skipped(field_name, skipped) == field_name \in skipped

\* description: field_info.description, else json_schema_extra's
description_of(field_info) ==
    IF field_info.description # "" THEN field_info.description ELSE field_info.extra

\* f"{field_header}\n{behavioral_boundary}\n"
field_section(field_name, description) ==
    <<upper(field_name), HeaderSuffix, Newline, IgnoreDirective, description, Newline>>

\* the loop over model_fields: field_sections
RECURSIVE field_sections(_, _)
field_sections(schema, skipped) ==
    IF schema = <<>> THEN <<>>
    ELSE LET f == Head(schema)
             rest == field_sections(Tail(schema), skipped)
         IN  IF is_skipped(f.name, skipped) \/ description_of(f) = ""
             THEN rest
             ELSE <<field_section(f.name, description_of(f))>> \o rest

\* sep.join(parts)
RECURSIVE join(_, _)
join(sep, parts) ==
    IF parts = <<>> THEN <<>>
    ELSE IF Len(parts) = 1 THEN parts[1]
    ELSE parts[1] \o <<sep>> \o join(sep, Tail(parts))

\* extract_field_descriptions(model_class), with the names its copy skips
extract_field_descriptions(schema, skipped) ==
    LET sections == field_sections(schema, skipped)
    IN  IF sections # <<>>
        THEN <<Newline, Preamble, BlankLine>> \o join(Newline, sections)
                 \o <<BlankLine, Critical>>
        ELSE <<>>

\* context hints: labelled groups whose value is a string or a list
NoHints == <<>>
SampleHints ==
    {NoHints,
     <<[key |-> "audience", kind |-> "str", value |-> <<"developers">>]>>,
     <<[key |-> "audience", kind |-> "list", value |-> <<"developers", "operators">>]>>}

HintsHeader == "\n\nCONTEXT HINTS TO CONSIDER:\n"
HintsDirective ==
    "Use these hints to improve accuracy and provide additional clarity, but do not summarize them.\n\n"

RECURSIVE hint_lines(_, _)
hint_lines(kind, value) ==
    IF value = <<>> THEN <<>>
    ELSE (IF kind = "list" THEN <<"- ">> ELSE <<>>) \o <<Head(value), Newline>>
             \o hint_lines(kind, Tail(value))

RECURSIVE hint_groups(_)
hint_groups(hints) ==
    IF hints = <<>> THEN <<>>
    ELSE <<upper(Head(hints).key), ":\n">>
             \o hint_lines(Head(hints).kind, Head(hints).value)
             \o <<Newline>> \o hint_groups(Tail(hints))

\* the context section of build_enhanced_system_prompt
context_section(hints) ==
    IF hints = NoHints THEN <<>>
    ELSE <<HintsHeader, HintsDirective>> \o hint_groups(hints)

\* build_enhanced_system_prompt(base_prompt, model_class, context_hints)
build_enhanced_system_prompt(base_prompt, schema, hints) ==
    LET field_instructions == extract_field_descriptions(schema, SharedUtilitiesSkipped)
        enhanced_prompt == IF field_instructions # <<>>
                           THEN base_prompt \o <<BlankLine>> \o field_instructions
                           ELSE base_prompt
    IN  enhanced_prompt \o context_section(hints)

\* the default base prompt of build_showroom_summary_prompt,
\* build_showroom_review_prompt and build_showroom_description_prompt
base_prompt_of(command) ==
    CASE command = "review" -> <<"You are an expert technical content reviewer ...">>
      [] command = "description" -> <<"You are an expert technical catalog writer ...">>
      [] OTHER -> <<"You are an expert technical content analyst ...">>

\* build_showroom_<command>_prompt(showroom, model_class): the system prompt
build_showroom_prompt(command, schema, hints) ==
    build_enhanced_system_prompt(base_prompt_of(command), schema, hints)

\* the system message of the request: process_showroom builds system_prompt
\* with build_showroom_<command>_prompt and passes it, without context hints,
\* to process_content_with_structured_output, which enhances the
\* system_prompt it was given before it sends it
sent_system_prompt(command, schema) ==
    build_enhanced_system_prompt(build_showroom_prompt(command, schema, NoHints),
                                 schema, NoHints)

PrInit ==
    /\ prIn \in {in \in [schema : PromptSchemasUpTo(MaxPromptFields),
                        command : Commands, hints : SampleHints] :
                   DistinctNames(in.schema)}
    /\ prOut = <<>>

\* the texts built for a schema: the field instructions of both copies, a
\* system prompt enhanced with hints, and the system message sent for the
\* command
BuildPrompts ==
    /\ prOut = <<>>
    /\ prOut' = [shared |-> extract_field_descriptions(prIn.schema, SharedUtilitiesSkipped),
                 prompts |-> extract_field_descriptions(prIn.schema, PromptsSkipped),
                 enhanced |-> build_enhanced_system_prompt(base_prompt_of(prIn.command),
                                                           prIn.schema, prIn.hints),
                 sent |-> sent_system_prompt(prIn.command, prIn.schema)]
    /\ UNCHANGED prIn
    /\ UNCHANGED notPr

PrNext == BuildPrompts

InitPrompt == PrInit /\ EarlierIdle /\ LlmIdle /\ CfgIdle /\ ProcIdle /\ RaceIdle /\ TmpIdle

SpecPrompt == InitPrompt /\ [][PrNext]_vars

\* the fields that are to get a block: described and not skipped
DescriptionCarried(f) == IF f.description # "" THEN f.description ELSE f.extra

Described(schema, skipped) ==
    SelectSeq(schema, LAMBDA f : f.name \notin skipped /\ DescriptionCarried(f) # "")

\* the blocks found in a text, in order: a header is the piece before
\* HeaderSuffix, its description the piece after the directive
RECURSIVE BlocksFrom(_, _)
BlocksFrom(text, i) ==
    IF i + 1 > Len(text) THEN <<>>
    ELSE IF text[i + 1] = HeaderSuffix
    THEN <<[header |-> text[i],
            directive |-> IF i + 3 <= Len(text) THEN text[i + 3] ELSE "",
            description |-> IF i + 4 <= Len(text) THEN text[i + 4] ELSE ""]>>
             \o BlocksFrom(text, i + 1)
    ELSE BlocksFrom(text, i + 1)

BlocksIn(text) == BlocksFrom(text, 1)

ExpectedBlocks(schema, skipped) ==
    LET d == Described(schema, skipped)
    IN  [i \in 1..Len(d) |->
           [header |-> upper(d[i].name), directive |-> IgnoreDirective,
            description |-> DescriptionCarried(d[i])]]

HasPreamble(text) == \E i \in 1..Len(text) : text[i] = Preamble

FieldInstructionsAsClaimed(text, schema, skipped) ==
    /\ BlocksIn(text) = ExpectedBlocks(schema, skipped)
    /\ HasPreamble(text) <=> Described(schema, skipped) # <<>>
    /\ (Described(schema, skipped) = <<>> => text = <<>>)

\* C23: extract_field_descriptions emits one block (upper-cased field name
\* header, then the field's own description) for every described field
\* outside its exclusion set, in declaration order, and none for the other
\* fields; the preamble is there exactly when a block is, and the result is
\* empty otherwise.  Checked for both copies of the function.
C23_OneBlockPerDescribedField ==
    prOut # <<>> =>
        /\ FieldInstructionsAsClaimed(prOut.shared, prIn.schema, SharedUtilitiesSkipped)
        /\ FieldInstructionsAsClaimed(prOut.prompts, prIn.schema, PromptsSkipped)

\* C23 witness: a schema with a skipped described field and a field described
\* by its json_schema_extra only, which alone got a block
C23_Witness ==
    /\ prOut # <<>> /\ Len(prIn.schema) = 2
    /\ prIn.schema[1].name = "git_url" /\ prIn.schema[1].description = "focus A"
    /\ prIn.schema[2].name = "headline" /\ prIn.schema[2].description = ""
    /\ prIn.schema[2].extra = "extra focus"
    /\ Len(BlocksIn(prOut.shared)) = 1
    /\ BlocksIn(prOut.shared)[1].description = "extra focus"

\* the number of places where part occurs in text
Occurrences(part, text) ==
    Cardinality({i \in 1..Len(text) :
                   /\ i + Len(part) - 1 <= Len(text)
                   /\ SubSeq(text, i, i + Len(part) - 1) = part})

\* C24: the system message sent for a command is the base role prompt, a
\* blank line and the field-instruction block of the schema (no context
\* hints are passed on this path); the block, and the header of each
\* described field, occurs exactly once in it.
C24_FieldBlockSentOnce ==
    prOut # <<>> =>
        LET block == extract_field_descriptions(prIn.schema, SharedUtilitiesSkipped)
            base == base_prompt_of(prIn.command)
            d == Described(prIn.schema, SharedUtilitiesSkipped)
        IN  /\ prOut.sent = IF block = <<>> THEN base
                            ELSE base \o <<BlankLine>> \o block
            /\ (block # <<>> => Occurrences(block, prOut.sent) = 1)
            /\ \A i \in 1..Len(d) :
                  Occurrences(<<upper(d[i].name), HeaderSuffix>>, prOut.sent) = 1

----------------------------------------------------------------------------
(* prompt_builder: get_prompts_and_settings and _discover_overrides *)

\* the names looked for in a configuration folder, in the order of the loop
ConfigFileNames == <<"prompts.py", "prompts.json", "settings.py", "settings.json">>

\* the two folders, in the order of the loop: Path.cwd() / "config", then
\* ~/.config/showroom-tool
ConfigFolders == <<"project", "user">>

SummaryKey == "SHOWROOM_SUMMARY_BASE_SYSTEM_PROMPT"
ReviewKey == "SHOWROOM_REVIEW_BASE_SYSTEM_PROMPT"
DescriptionKey == "SHOWROOM_DESCRIPTION_BASE_SYSTEM_PROMPT"
SettingKey == "SUMMARY_TEMPERATURE"
LowerKey == "notes"

\* str.isupper() on the keys used
isupper(k) == k # LowerKey

\* the built-in constants of prompts.py
BuiltInDefaults ==
    [k \in {SummaryKey, ReviewKey, DescriptionKey} |-> <<"built-in", k>>]

\* what a configuration file defines; a broken file is a Python file that
\* raises when executed, or a JSON file that does not parse
NoConstants == [k \in {} |-> <<>>]
BrokenFile == [broken |-> TRUE, defines |-> NoConstants]
FileDefining(d) == [broken |-> FALSE, defines |-> d]

SampleFiles ==
    {BrokenFile,
     FileDefining([k \in {SummaryKey, SettingKey} |-> <<"first text", k>>]),
     FileDefining([k \in {SummaryKey, ReviewKey, LowerKey} |-> <<"second text", k>>])}

\* a folder: absent, or the files it holds (up to two of the four names)
NoFolder == [exists |-> FALSE, files |-> NoConstants]
FileNameSet == {ConfigFileNames[i] : i \in 1..Len(ConfigFileNames)}
SampleFolders ==
    {NoFolder}
    \cup {[exists |-> TRUE, files |-> f] :
            f \in UNION {[names -> SampleFiles] :
                           names \in {n \in SUBSET FileNameSet : Cardinality(n) <= 2}}}

\* dict.update
update(d, other) ==
    [k \in DOMAIN d \cup DOMAIN other |-> IF k \in DOMAIN other THEN other[k] ELSE d[k]]

\* the upper-case names a file defines
upper_constants(file) ==
    [k \in {x \in DOMAIN file.defines : isupper(x)} |-> file.defines[k]]

\* _load_py_constants(path): exec_module may raise
load_py_constants(file) ==
    IF file.broken THEN [raised |-> TRUE, loaded |-> NoConstants]
    ELSE [raised |-> FALSE, loaded |-> upper_constants(file)]

\* _load_json_constants(path): any exception gives {}
load_json_constants(file) ==
    IF file.broken THEN [raised |-> FALSE, loaded |-> NoConstants]
    ELSE [raised |-> FALSE, loaded |-> upper_constants(file)]

IsPy(name) == name \in {"prompts.py", "settings.py"}

\* the inner loop over the four names of one folder, from name i on
RECURSIVE load_folder(_, _, _)
load_folder(folder, i, overrides) ==
    IF i > Len(ConfigFileNames) THEN [raised |-> FALSE, loaded |-> overrides]
    ELSE LET name == ConfigFileNames[i]
         IN  IF name \notin DOMAIN folder.files
             THEN load_folder(folder, i + 1, overrides)
             ELSE LET r == IF IsPy(name) THEN load_py_constants(folder.files[name])
                           ELSE load_json_constants(folder.files[name])
                  IN  IF r.raised THEN r
                      ELSE load_folder(folder, i + 1, update(overrides, r.loaded))

\* _discover_overrides(): the outer loop over the folders, from folder j on
RECURSIVE discover_from(_, _, _)
discover_from(folders, j, overrides) ==
    IF j > Len(ConfigFolders) THEN [raised |-> FALSE, loaded |-> overrides]
    ELSE LET folder == folders[ConfigFolders[j]]
         IN  IF ~folder.exists THEN discover_from(folders, j + 1, overrides)
             ELSE LET r == load_folder(folder, 1, overrides)
                  IN  IF r.raised THEN r ELSE discover_from(folders, j + 1, r.loaded)

discover_overrides(folders) == discover_from(folders, 1, NoConstants)

\* get_prompts_and_settings()
get_prompts_and_settings(folders) ==
    LET r == discover_overrides(folders)
    IN  IF r.raised THEN [raised |-> TRUE, merged |-> NoConstants]
        ELSE [raised |-> FALSE, merged |-> update(BuiltInDefaults, r.loaded)]

CfgInit ==
    /\ cfgIn \in [project : SampleFolders, user : SampleFolders]
    /\ cfgOut = <<>>

GetPromptsAndSettings ==
    /\ cfgOut = <<>>
    /\ cfgOut' = get_prompts_and_settings(cfgIn)
    /\ UNCHANGED cfgIn
    /\ UNCHANGED notCfg

CfgNext == GetPromptsAndSettings

InitConfig == CfgInit /\ EarlierIdle /\ LlmIdle /\ PrIdle /\ ProcIdle /\ RaceIdle /\ TmpIdle

SpecConfig == InitConfig /\ [][CfgNext]_vars

\* the values a folder's files give to an upper-case key
ValuesIn(folder, k) ==
    {folder.files[n].defines[k] :
       n \in {m \in DOMAIN folder.files :
                ~folder.files[m].broken /\ k \in DOMAIN folder.files[m].defines}}

DefinedIn(folder, k) == folder.exists /\ isupper(k) /\ ValuesIn(folder, k) # {}

ConfigKeys == {SummaryKey, ReviewKey, DescriptionKey, SettingKey, LowerKey}

\* C25: get_prompts_and_settings returns, for a key defined both in a
\* project-level and in a user-level configuration file, the project-level
\* value; a key defined in neither keeps its built-in default.
C25_ProjectOverUserOverDefaults ==
    (cfgOut # <<>> /\ ~cfgOut.raised) =>
        \A k \in ConfigKeys :
            /\ (DefinedIn(cfgIn.project, k) /\ DefinedIn(cfgIn.user, k) =>
                   /\ k \in DOMAIN cfgOut.merged
                   /\ cfgOut.merged[k] \in ValuesIn(cfgIn.project, k))
            /\ (~DefinedIn(cfgIn.project, k) /\ ~DefinedIn(cfgIn.user, k)
                  /\ k \in DOMAIN BuiltInDefaults =>
                   /\ k \in DOMAIN cfgOut.merged
                   /\ cfgOut.merged[k] = BuiltInDefaults[k])

----------------------------------------------------------------------------
(* The process_showroom node on a state that holds a Showroom *)

EarlierArtifact == "artifact of an earlier run"

\* the Showroom of the state (or none) with its artifact slots, the command
\* and what the invocation does
ProcInit ==
    /\ pIn \in [showroom : {f.value : f \in {x \in FetchOutcomes : ~x.raised}},
                slots : [ArtifactSlots -> {"None", EarlierArtifact}],
                command : Commands \cup {NoCommand},
                llm : {"ok", "fail", "raises"}]
    /\ pOut = <<>>

\* one run of the node: its update, and the Showroom object afterwards
ProcessShowroomNode ==
    /\ pOut = <<>>
    /\ LET upd == process_showroom(pIn.showroom, pIn)
       IN  pOut' = [update |-> upd,
                    showroom |-> upd.showroom,
                    slots |-> IF upd.attached # ""
                              THEN attach(pIn.slots, upd.attached, Artifact)
                              ELSE pIn.slots]
    /\ UNCHANGED pIn
    /\ UNCHANGED notProc

ProcNext == ProcessShowroomNode

InitProcess == ProcInit /\ EarlierIdle /\ LlmIdle /\ PrIdle /\ CfgIdle /\ RaceIdle /\ TmpIdle

SpecProcess == InitProcess /\ [][ProcNext]_vars

\* the command the node works for
EffectiveCommand(in) == IF in.command = NoCommand THEN "summary" ELSE in.command

SlotOfCommand(command) ==
    CASE command = "summary" -> "summary_output"
      [] command = "review" -> "review_output"
      [] command = "description" -> "description_output"

\* C26: the node changes the Document only by attaching an artifact: on
\* success the slot of the command holds the returned artifact and the other
\* two slots, lab_name, git_url, git_ref and the modules are as before; when
\* the invocation fails no slot is set and final_output has success = False
\* with an error message.
C26_OnlyArtifactAttached ==
    (pOut # <<>> /\ ~pIn.showroom.isNone) =>
        /\ pOut.showroom = pIn.showroom
        /\ (pIn.llm = "ok" =>
               /\ pOut.slots[SlotOfCommand(EffectiveCommand(pIn))] = Artifact
               /\ \A x \in ArtifactSlots \ {SlotOfCommand(EffectiveCommand(pIn))} :
                     pOut.slots[x] = pIn.slots[x]
               /\ pOut.update.final_output.success
               /\ pOut.update.final_output.showroom_data = pIn.showroom)
        /\ (pIn.llm # "ok" =>
               /\ pOut.slots = pIn.slots
               /\ "final_output" \in pOut.update.sets
               /\ {"success", "error"} \subseteq pOut.update.final_output.keys
               /\ ~pOut.update.final_output.success
               /\ pOut.update.final_output.error # "")

\* C26 witness: a review was attached to a Document that already held a
\* summary, and the summary and the two modules are still there
C26_Witness ==
    /\ pOut # <<>> /\ ~pIn.showroom.isNone /\ pIn.llm = "ok"
    /\ pIn.command = "review" /\ pIn.slots["summary_output"] = EarlierArtifact
    /\ pIn.slots["review_output"] = "None"
    /\ pOut.slots["review_output"] = Artifact
    /\ pOut.slots["summary_output"] = EarlierArtifact
    /\ Len(pOut.showroom.modules) = 2

----------------------------------------------------------------------------
(* Two concurrent cache-mode invocations of get_or_clone_repository, each   *)
(* followed by its caller reading the returned path                         *)

\* number of commits pushed to the remote while the invocations run
MaxRaceAdvance == 1

RaceProcs == {1, 2}

\* both invocations name the same URL, so a ref stands for its cache key
RaceRemote == [b \in Branches |-> InitialCommit(b)]

\* a cache entry left by an earlier, undisturbed invocation for the ref
CachedClone(ref) == FreshClone(Dir("absent"), ref, RaceRemote, "main", TRUE).wc

\* a clone in progress: the destination holds a .git entry git cannot use yet
CloneInProgress == Dir("corrupt")

\* an assignment that replaces every entry of the cache root
write_everywhere(cacheRoot, key, p, wc) ==
    [k \in DOMAIN cacheRoot |-> [dir |-> wc, touched |-> cacheRoot[k].touched \cup {p}]]

\* repo_path = cache_base_dir / cache_key: what invocation p does, it does
\* to the entry of its own key
write(cacheRoot, key, p, wc) ==
    [cacheRoot EXCEPT ![key] = [dir |-> wc, touched |-> @.touched \cup {p}]]

RaceInit ==
    /\ raceRemote = [branches |-> RaceRemote, advances |-> 0]
    /\ raceCache \in {[k \in Branches |->
                          [dir |-> IF k \in present THEN CachedClone(k) ELSE Dir("absent"),
                           touched |-> {}]] : present \in SUBSET Branches}
    /\ raceProc \in [RaceProcs -> [ref : Branches, pc : {"start"}, fallback : {FALSE}]]

\* somebody pushes to branch b
RaceAdvance(b) ==
    /\ raceRemote.advances < MaxRaceAdvance
    /\ raceRemote' = [branches |-> [raceRemote.branches EXCEPT
                                       ![b] = Cardinality(Branches) + raceRemote.advances + 1],
                      advances |-> raceRemote.advances + 1]
    /\ UNCHANGED <<raceCache, raceProc>>
    /\ UNCHANGED notRace

\* if repo_path.exists() and (repo_path / ".git").exists()
RaceExists(p) ==
    LET me == raceProc[p]
        wc == raceCache[me.ref].dir
    IN  /\ me.pc = "start"
        /\ raceProc' = [raceProc EXCEPT ![p].pc =
                           IF PathExists(wc) /\ HasDotGit(wc) THEN "check" ELSE "clone"]
        /\ raceCache' = write(raceCache, me.ref, p, wc)
        /\ UNCHANGED raceRemote
        /\ UNCHANGED notRace

\* is_cached_repo_current(repo_path, git_ref)
RaceCheck(p, fetchOk) ==
    LET me == raceProc[p]
        r == is_cached_repo_current(raceCache[me.ref].dir, me.ref,
                                    raceRemote.branches, fetchOk)
    IN  /\ me.pc = "check"
        /\ raceProc' = [raceProc EXCEPT ![p].pc = IF r.current THEN "ready" ELSE "update"]
        /\ raceCache' = write(raceCache, me.ref, p, r.wc)
        /\ UNCHANGED raceRemote
        /\ UNCHANGED notRace

\* update_cached_repo(repo_path, git_ref)
RaceUpdate(p, fetchOk) ==
    LET me == raceProc[p]
        r == update_cached_repo(raceCache[me.ref].dir, me.ref,
                                raceRemote.branches, fetchOk)
    IN  /\ me.pc = "update"
        /\ raceProc' = [raceProc EXCEPT ![p].pc = IF r.ok THEN "ready" ELSE "rmtree"]
        /\ raceCache' = write(raceCache, me.ref, p, r.wc)
        /\ UNCHANGED raceRemote
        /\ UNCHANGED notRace

\* shutil.rmtree(repo_path, ignore_errors=True) of the fallback
RaceRmtree(p, how) ==
    LET me == raceProc[p]
    IN  /\ me.pc = "rmtree"
        /\ raceProc' = [raceProc EXCEPT ![p].pc = "clone", ![p].fallback = TRUE]
        /\ raceCache' = write(raceCache, me.ref, p, rmtree(raceCache[me.ref].dir, how))
        /\ UNCHANGED raceRemote
        /\ UNCHANGED notRace

\* git.Repo.clone_from(git_url, repo_path) starts: git refuses a destination
\* that is not empty, otherwise it begins to fill it
RaceCloneBegin(p, netOk) ==
    LET me == raceProc[p]
        wc == raceCache[me.ref].dir
        cl == clone_from(wc, raceRemote.branches, "main", netOk)
    IN  /\ me.pc = "clone"
        /\ raceProc' = [raceProc EXCEPT ![p].pc = IF cl.ok THEN "cloning" ELSE "failed"]
        /\ raceCache' = write(raceCache, me.ref, p, IF cl.ok THEN CloneInProgress ELSE wc)
        /\ UNCHANGED raceRemote
        /\ UNCHANGED notRace

\* the clone ends: it completes the working copy, or it fails on the way
\* (GitCommandError) and git removes what it wrote
RaceCloneEnd(p, ok) ==
    LET me == raceProc[p]
        cl == clone_from(Dir("absent"), raceRemote.branches, "main", TRUE)
    IN  /\ me.pc = "cloning"
        /\ raceProc' = [raceProc EXCEPT ![p].pc =
                           IF ~ok THEN "failed"
                           ELSE IF me.ref # AssumedDefault THEN "checkout" ELSE "ready"]
        /\ raceCache' = write(raceCache, me.ref, p, IF ok THEN cl.wc ELSE Dir("absent"))
        /\ UNCHANGED raceRemote
        /\ UNCHANGED notRace

\* repo.git.checkout(git_ref) after the clone; the working copy may have been
\* replaced meanwhile
RaceCheckout(p) ==
    LET me == raceProc[p]
        wc == raceCache[me.ref].dir
        co == IF wc.kind = "repo" THEN checkout(wc, me.ref) ELSE [ok |-> FALSE, wc |-> wc]
    IN  /\ me.pc = "checkout"
        /\ raceProc' = [raceProc EXCEPT ![p].pc = IF co.ok THEN "ready" ELSE "failed"]
        /\ raceCache' = write(raceCache, me.ref, p, co.wc)
        /\ UNCHANGED raceRemote
        /\ UNCHANGED notRace

\* the caller got repo_path and starts to read the working copy
RaceRead(p) ==
    LET me == raceProc[p]
    IN  /\ me.pc = "ready"
        /\ raceProc' = [raceProc EXCEPT ![p].pc = "reading"]
        /\ raceCache' = write(raceCache, me.ref, p, raceCache[me.ref].dir)
        /\ UNCHANGED raceRemote
        /\ UNCHANGED notRace

\* the caller has read what it needs
RaceFinish(p) ==
    LET me == raceProc[p]
    IN  /\ me.pc = "reading"
        /\ raceProc' = [raceProc EXCEPT ![p].pc = "finished"]
        /\ raceCache' = write(raceCache, me.ref, p, raceCache[me.ref].dir)
        /\ UNCHANGED raceRemote
        /\ UNCHANGED notRace

RaceNext ==
    \/ \E b \in Branches : RaceAdvance(b)
    \/ \E p \in RaceProcs : RaceExists(p)
    \/ \E p \in RaceProcs, fetchOk \in BOOLEAN : RaceCheck(p, fetchOk)
    \/ \E p \in RaceProcs, fetchOk \in BOOLEAN : RaceUpdate(p, fetchOk)
    \/ \E p \in RaceProcs, how \in RmtreeOutcomes : RaceRmtree(p, how)
    \/ \E p \in RaceProcs, netOk \in BOOLEAN : RaceCloneBegin(p, netOk)
    \/ \E p \in RaceProcs, ok \in BOOLEAN : RaceCloneEnd(p, ok)
    \/ \E p \in RaceProcs : RaceCheckout(p)
    \/ \E p \in RaceProcs : RaceRead(p)
    \/ \E p \in RaceProcs : RaceFinish(p)

InitRace == RaceInit /\ EarlierIdle /\ LlmIdle /\ PrIdle /\ CfgIdle /\ ProcIdle /\ TmpIdle

SpecRace == InitRace /\ [][RaceNext]_vars

\* C27: invocations with different cache keys never touch each other's
\* cache directory: an entry is touched only by invocations of its key.
\* (That two invocations of one key can race, no lock being taken, is the
\* reachable state C27_RaceReachable.)
C27_DifferentKeysIsolated ==
    raceProc # <<>> =>
        \A k \in Branches :
            raceCache[k].touched \subseteq {p \in RaceProcs : raceProc[p].ref = k}

\* C27 witness: one invocation has returned the path, or its caller is
\* reading it, while the other invocation of the same key has deleted the
\* path in its fallback or is in the middle of re-cloning into it, and the
\* path holds no usable working copy
C27_RaceReachable ==
    /\ raceProc # <<>>
    /\ \E p, q \in RaceProcs :
          /\ p # q /\ raceProc[p].ref = raceProc[q].ref
          /\ raceProc[p].pc \in {"ready", "reading"}
          /\ raceProc[q].fallback /\ raceProc[q].pc \in {"clone", "cloning"}
          /\ raceCache[raceProc[p].ref].dir.kind # "repo"

----------------------------------------------------------------------------
(* Bounded git operations of one get_or_clone_repository call (under Spec) *)

\* how often an operation was issued in a call
Issued(op, ops) == Cardinality({i \in 1..Len(ops) : ops[i] = op})

\* C29: every call ends with a path or None after at most one currency
\* check, one stale-update attempt and one clone attempt; a clone is
\* attempted only on a cache miss, in no-cache mode or after a failed
\* stale-update; a call that finds the cache current issues no checkout, no
\* deletion and no clone.
C29_BoundedGitOperations ==
    last.mode # "none" =>
        /\ last.result \in {"path", "none"}
        /\ Issued("is_current", last.ops) <= 1
        /\ Issued("update", last.ops) <= 1
        /\ Issued("clone", last.ops) <= 1
        /\ (Issued("clone", last.ops) = 1 =>
               \/ last.class \in {"MISS", "NOCACHE"}
               \/ Issued("update", last.ops) = 1 /\ ~last.updateOk)
        /\ (last.class = "CURRENT" =>
               /\ last.result = "path"
               /\ Issued("checkout", last.ops) = 0
               /\ Issued("rmtree", last.ops) = 0
               /\ Issued("clone", last.ops) = 0)

\* C29 witness: an entry whose update failed was removed and re-cloned, and
\* the checkout of the ref in the clone ended the call: five operations,
\* each issued once
C29_Witness ==
    /\ last.mode # "none"
    /\ last.ops = <<"is_current", "update", "rmtree", "clone", "checkout">>
    /\ last.class = "STALE" /\ ~last.updateOk /\ last.cloneOk

----------------------------------------------------------------------------
(* fetch_showroom_repository with a remote URL and no_cache: the temporary  *)
(* directory of the clone                                                   *)

TmpRepoPath == <<TmpWorkName, RepoName>>

\* tempfile.mkdtemp(): a new, empty directory whose name starts with "tmp"
mkdtemp(fs) == [fs EXCEPT ![TmpWorkName] = [exists |-> TRUE, repo |-> NoRepoDir]]

\* the no_cache branch of get_or_clone_repository: mkdtemp, clone_from into
\* <temp_dir>/showroom, checkout when git_ref != "main"; a clone that fails
\* leaves the temporary directory empty, a checkout that fails leaves the
\* clone in it
clone_no_cache(fs, in) ==
    LET made == mkdtemp(fs)
        fc == FreshClone(Dir("absent"), in.ref, in.remote, "main", in.netOk)
        cloned == [made EXCEPT ![TmpWorkName].repo = in.content]
    IN  IF ~fc.cloneOk THEN [path |-> <<>>, fs |-> made, ops |-> fc.ops]
        ELSE IF fc.result = "none" THEN [path |-> <<>>, fs |-> cloned, ops |-> fc.ops]
        ELSE [path |-> TmpRepoPath, fs |-> cloned, ops |-> fc.ops]

\* fetch_showroom_repository(git_url, git_ref, no_cache=True): the value
\* returned and the filesystem left behind
fetch_showroom_no_cache(fs, in) ==
    LET r == clone_no_cache(fs, in)
    IN  IF r.path = <<>>
        THEN \* if repo_path is None: return None, before the try block
             [result |-> NoneResult, fs |-> r.fs, ops |-> r.ops, extracted |-> FALSE]
        ELSE LET doc == extract_showroom(r.fs[TmpWorkName].repo, in.git_url, in.ref)
                 \* finally
                 after == IF startswith(ParentName(r.path), TmpPrefix)
                          THEN rmtree_parent(r.fs, r.path)
                          ELSE r.fs
             IN  [result |-> doc, fs |-> after, ops |-> r.ops, extracted |-> TRUE]

\* the remote: its branches and the content every clone of it holds
TmpInit ==
    /\ tmpIn \in [ref : Branches,
                  remote : {RaceRemote, [RaceRemote EXCEPT !["dev"] = 0]},
                  netOk : BOOLEAN,
                  git_url : {<<"u">>, <<"v">>},
                  content : {d \in SampleRepoDirs : d.exists /\ d.git}]
    /\ tmpOut = <<>>

FetchNoCache ==
    /\ tmpOut = <<>>
    /\ tmpOut' = fetch_showroom_no_cache([n \in ParentNames |-> AbsentParent], tmpIn)
    /\ UNCHANGED tmpIn
    /\ UNCHANGED notTmp

TmpNext == FetchNoCache

InitTemp == TmpInit /\ EarlierIdle /\ LlmIdle /\ PrIdle /\ CfgIdle /\ ProcIdle /\ RaceIdle

SpecTemp == InitTemp /\ [][TmpNext]_vars

\* C28: when a no-cache fetch of a remote URL has returned, after a
\* successful extraction, a failed extraction, a failed clone or a failed
\* checkout, the temporary directory made for the clone is gone.
C28_NoTemporaryDirectoryLeft ==
    tmpOut # <<>> => ~tmpOut.fs[TmpWorkName].exists

====
